---- MODULE Spec2Model ----
(***************************************************************************)
(* AudioGO: the WhatsApp/WebRTC call registry, its HTTP handlers and peer  *)
(* callbacks (package whatsapp), and the agent-audio bridge between the    *)
(* LiveKit room participant (package retell) and the WebRTC track.         *)
(*                                                                         *)
(* Spec        : registry, HandleSDP / HandleHangup, peer callbacks,       *)
(*               closeCall, start of the agent pipeline.                   *)
(* FrameSpec   : the bridge consumer's PCM framing, byte by byte.          *)
(* ChannelSpec : the producer (processAudioTrack / playAudioBuffer)        *)
(*               against the bounded bridge channel.                       *)
(* HandshakeSpec : one HandleSDP, call by call on its transport, with the  *)
(*               transport's candidate gatherer.                           *)
(* CallbackSpec : sessions with every notification of setupPeerCallbacks.  *)
(* InboundSpec : setupAudioReceiver's read loop, sink and idle watchdog.   *)
(* InboundFairSpec : InboundSpec with the goroutines scheduled.            *)
(* IntakeSpec  : HandleSDP and HandleHangup requests with closeCall.       *)
(* AgentSpec   : initAgentCall beside the inbound track.                   *)
(* CodecSpec   : little-endian encoding and decoding of one sample.        *)
(* OggSpec     : handleSDP of the OGG sender and its state handlers.       *)
(* AudioManagerSpec : SystemAudioManager and its mutex.                    *)
(* StreamSpec  : AudioStreamManager and its streaming goroutines.          *)
(* SocketSpec  : SocketClientService and its socket listeners.             *)
(***************************************************************************)
EXTENDS Integers, Sequences, FiniteSets, TLC

\* ------------------------------------------------------------- bounds
\* Call objects that may be allocated.
MaxCalls == 2
\* Goroutines of one run: HTTP requests, and peer notifications that do more
\* than log (failed, closed, ICE connected). Each runs one handler.
MaxThreads == 3
\* Readings of time.Now().UnixNano() are 0..MaxTime.
MaxTime == 1
\* Chunks handed to the bridge consumer in one run of FrameSpec.
MaxChunks == 3
\* Chunks playAudioBuffer offers to the bridge channel in one run of
\* ChannelSpec.
MaxOffers == 102
MaxCandidates == 2
MaxRequests == 2
MaxStarts == 2
MaxListeners == 2
MaxEmits == 2
\* Audio units one remote track delivers, and the largest idle threshold
\* (in ticks of the clock) a build is given, in InboundSpec.
MaxUnits == 3
MaxThreshold == 2
\* Connection states a transport reports in one run of OggSpec.
MaxNotified == 3
\* Times the socket connects in one run of SocketSpec.
MaxConnects == 3

\* ------------------------------------------------------------- state
VARIABLES
    now,        \* last reading of the wall clock
    calls,      \* var calls sync.Map: id -> *Call (NoCall when absent)
    nCalls,     \* Call objects allocated so far (the heap)
    call,       \* the fields of each Call object
    peer,       \* the PeerConnection each Call owns
    agent,      \* the agent pipeline (initAgentCall, bridge) of each Call
    thr,        \* the goroutines: position and local variables
    response,   \* the HTTP response written last (NoResponse before any)
    proc,       \* the process: running, crashed (unrecovered panic), exited
    removals,   \* per Call: registry deletions that removed its entry
    overwrites, \* stores that replaced an existing registry entry
    \* bridgeAgentAudioToWebRTC, the consumer loop (FrameSpec)
    fed,        \* bytes received from the bridge channel so far
    chunks,     \* chunks received so far
    oddChunks,  \* how many of them had an odd length
    pcmBuffer,  \* var pcmBuffer []int16
    track,      \* the frames WriteSample put on the outbound track
    skipped,    \* frames lost to an encode or write error, or encoded empty
    \* the bridge channel between the two packages (ChannelSpec)
    audioBuffer,        \* the chunks queued in the channel
    chanState,          \* the channel: "none" (not made), "open", "closed"
    audioBridgeChannel, \* rp.audioBridgeChannel: "nil" or "chan"
    audioCtxDone,       \* rp.audioCtx is cancelled
    reader,             \* the processAudioTrack goroutine
    consumer,           \* the bridgeAgentAudioToWebRTC goroutine
    offers,             \* chunks offered to the channel so far
    dropLogs,           \* "Canal de puente lleno" lines printed
    signal,             \* a payload on its way through signalEncode/Decode
    clients,            \* Server.clients: sessionId -> *ClientSession
    session,            \* the ClientSession objects
    nSessions,          \* ClientSession objects allocated so far
    srv,                \* the /start-call request goroutines
    client,             \* one RetellWebClient
    pcs,                \* peer connections that client has created
    ret,                \* what the last call of the client's API returned
    listeners,          \* EventEmitter.listeners: event -> handlers
    offed,              \* <<event, handler>> pairs given to Off and not to On since
    invocations,        \* handler -> goroutines started for it by Emit
    emitted,            \* event -> calls of Emit
    shake,              \* one run of HandleSDP, call by call on its transport
    inbound,            \* one remote track in setupAudioReceiver's OnTrack
    codec,              \* one sample from the producer's bytes to the bridge's sample
    oggCall,            \* the call of package main's handleSDP (OGG sender)
    sam,                \* a SystemAudioManager and the goroutine calling it
    asm,                \* an AudioStreamManager and its streaming goroutines
    sock                \* the SocketClientService and its socket

regVars == <<now, calls, nCalls, call, peer, agent, thr, response, proc,
             removals, overwrites>>

frameVars == <<fed, chunks, oddChunks, pcmBuffer, track, skipped>>

chanVars == <<audioBuffer, chanState, audioBridgeChannel, audioCtxDone, reader,
              consumer, offers, dropLogs>>

bridgeVars == <<frameVars, chanVars>>

signalVars == <<signal>>

serverVars == <<clients, session, nSessions, srv>>

clientVars == <<client, pcs, ret>>

emitterVars == <<listeners, offed, invocations, emitted>>

mediaVars == <<shake, inbound>>

utilVars == <<codec, oggCall, sam, asm, sock>>

coreVars == <<regVars, bridgeVars, signalVars, serverVars, clientVars,
              emitterVars, mediaVars>>

libVars == <<signalVars, serverVars, clientVars, emitterVars, mediaVars, utilVars>>

vars == <<regVars, bridgeVars, libVars>>

Objs == 1..MaxCalls
Threads == 1..MaxThreads
NoCall == 0
\* newCallID: "<UnixNano>-<rand.Intn(100000)>"
\* The draws of rand.Intn(100000) the model follows. One is enough: two ids
\* differ as soon as their clock readings differ.
RandDraws == {0}
CallIDs == (0..MaxTime) \X RandDraws
NoID == <<-1, -1>>

ICEStates == {"checking", "connected"}
PCStates == {"connected", "failed", "closed"}

\* ------------------------------------------------------------ registry
\* A Call before createCall has built it.
NoCallObj == [ID |-> NoID, Done |-> "none", doneCloses |-> 0,
              AudioStarted |-> FALSE, AudioMutex |-> 0]
NewCallObj(id) == [ID |-> id, Done |-> "open", doneCloses |-> 0,
                   AudioStarted |-> FALSE, AudioMutex |-> 0]
NoPeer == [closed |-> FALSE, callbacks |-> FALSE, track |-> FALSE]
NoAgent == [starts |-> 0, state |-> "none", bridge |-> "none",
            sigHandler |-> FALSE]
IdleThread == [pc |-> "idle", kind |-> "none", call |-> NoCall]
DoneThread == [pc |-> "done", kind |-> "none", call |-> NoCall]

newCallID(tm, r) == <<tm, r>>
storeCall(reg, id, o) == [reg EXCEPT ![id] = o]
loadCall(id) == IF id \in CallIDs THEN calls[id] ELSE NoCall
deleteCall(reg, id) == [reg EXCEPT ![id] = NoCall]
getAllCalls == {id \in CallIDs : calls[id] # NoCall}

Running == proc = "running"
\* Goroutines are numbered in the order they start.
CanStart(t) ==
    /\ Running
    /\ thr[t].pc = "idle"
    /\ IF t = 1 THEN TRUE ELSE thr[t - 1].pc # "idle"
At(t, pc) == Running /\ thr[t].pc = pc
Begin(t, kind, o, pc) == [thr EXCEPT ![t] = [pc |-> pc, kind |-> kind, call |-> o]]
Goto(t, pc) == [thr EXCEPT ![t].pc = pc]
\* A handler writes its response: the handler, the Call it worked on and
\* the status ("close_panic", "decode_panic": the request died in a panic).
Response(kind, o, resp) ==
    [kind |-> kind, call |-> o, resp |-> resp, id |-> NoID, body |-> <<>>]
NoResponse == Response("none", NoCall, "none")
Respond(kind, o, resp) == response' = Response(kind, o, resp)
Finish(t, kind, o, resp) ==
    /\ thr' = [thr EXCEPT ![t] = DoneThread]
    /\ Respond(kind, o, resp)
\* A callback goroutine ends: it answers nobody, it only logs.
Return(t) ==
    /\ thr' = [thr EXCEPT ![t] = DoneThread]
    /\ UNCHANGED response

\* server.go: the sessions of Server.clients and the goroutines of
\* startCallHandler.
SessionIDs == {"s1", "s2"}
Reqs == 1..MaxRequests
NoSession == 0
NoSessionObj == [ID |-> "", IsActive |-> FALSE, started |-> FALSE]
IdleRequest == [pc |-> "idle", sid |-> "", session |-> NoSession, resp |-> "none"]

\* retellAI: the events, the handlers registered for them, and the client as
\* NewRetellWebClient makes it.
Events == {"call_started", "call_ended", "error"}
Handlers == {1, 2}
NoHandler == 0
NoPC == 0
NewRetellWebClient ==
    [connected |-> FALSE, connectionState |-> "disconnected",
     peerConnection |-> NoPC, dataChannel |-> FALSE]

\* HandleSDP before a request has come: no call made on a transport, no
\* candidate list, nothing gathered, no response.
NoHandshake ==
    [pc |-> "idle", log |-> <<>>, remote |-> <<>>, applied |-> <<>>,
     gather |-> "new", discovered |-> <<>>, localCandidates |-> <<>>,
     resp |-> "none", body |-> <<>>]

\* package main's handleSDP before a request: no Call, no handler on the
\* transport.
NoOggCall ==
    [pc |-> "idle", registered |-> FALSE, transport |-> "none",
     Done |-> "none", handler |-> "none", notified |-> <<>>, sends |-> 0]

\* NewSystemAudioManager: no device chosen (nil is -1), no stream; the
\* goroutine that calls it is in no function.
NewSystemAudioManager ==
    [pc |-> "idle", fn |-> "none", arg |-> -1, mutex |-> FALSE,
     inputDevice |-> -1, outputDevice |-> -1, isCapturing |-> FALSE,
     isPlaying |-> FALSE, ret |-> "none"]

\* NewAudioStreamManager: isStreaming false, a fresh context, no track.
NewAudioStreamManager ==
    [isStreaming |-> FALSE, track |-> FALSE, ctxDone |-> FALSE,
     tasks |-> <<>>, written |-> 0, ret |-> "none"]

\* The SocketClientService when its constructor has registered the connect
\* and disconnect listeners, the socket not yet connected.
NewSocketClientService ==
    [isConnected |-> FALSE, link |-> "down", wired |-> TRUE, connects |-> 0,
     listeners |-> 0, handled |-> <<>>]

\* The transport before a remote track has been announced to OnTrack.
NoTrack ==
    [pc |-> "none", sink |-> "none", arrived |-> 0, written |-> <<>>,
     threshold |-> 0, timer |-> "none", remaining |-> 0, timerC |-> FALSE,
     watchdog |-> "none", idle |-> 0, peer |-> "open"]

Init ==
    /\ now = 0
    /\ calls = [id \in CallIDs |-> NoCall]
    /\ nCalls = 0
    /\ call = [o \in Objs |-> NoCallObj]
    /\ peer = [o \in Objs |-> NoPeer]
    /\ agent = [o \in Objs |-> NoAgent]
    /\ thr = [t \in Threads |-> IdleThread]
    /\ response = NoResponse
    /\ proc = "running"
    /\ removals = [o \in Objs |-> 0]
    /\ overwrites = 0
    /\ fed = 0
    /\ chunks = 0
    /\ oddChunks = 0
    /\ pcmBuffer = <<>>
    /\ track = <<>>
    /\ skipped = 0
    /\ audioBuffer = <<>>
    /\ chanState = "none"
    /\ audioBridgeChannel = "nil"
    /\ audioCtxDone = FALSE
    /\ reader = [pc |-> "read", bridgeChannel |-> "nil", pcmBytes |-> <<>>]
    /\ consumer = "none"
    /\ offers = 0
    /\ dropLogs = 0
    /\ signal = [stage |-> "idle", kind |-> "none", payload |-> <<>>,
                 data |-> <<>>]
    /\ clients = [sid \in SessionIDs |-> NoSession]
    /\ session = [o \in Reqs |-> NoSessionObj]
    /\ nSessions = 0
    /\ srv = [q \in Reqs |-> IdleRequest]
    /\ client = NewRetellWebClient
    /\ pcs = 0
    /\ ret = "none"
    /\ listeners = [e \in Events |-> <<>>]
    /\ offed = {}
    /\ invocations = [h \in Handlers |-> 0]
    /\ emitted = [e \in Events |-> 0]
    /\ shake = NoHandshake
    /\ inbound = NoTrack
    /\ codec = [pc |-> "idle", int16Sample |-> 0, pcmBytes |-> <<>>,
                sample |-> 0]
    /\ oggCall = NoOggCall
    /\ sam = NewSystemAudioManager
    /\ asm = NewAudioStreamManager
    /\ sock = NewSocketClientService

\* ---------------------------------------------------------- signal.go
\* Texts and byte strings are sequences of character codes (ASCII).
\* A JSON string: the quote, the backslash and the newline are escaped (the
\* texts of the model hold no other character that json.Marshal escapes).
\* NoEscape writes the text as it is.
NoEscape(str) == str
RECURSIVE Escape(_)
Escape(str) ==
    IF str = <<>> THEN <<>>
    ELSE (IF Head(str) = 10 THEN <<92, 110>>
          ELSE IF Head(str) \in {34, 92} THEN <<92, Head(str)>>
          ELSE <<Head(str)>>) \o Escape(Tail(str))
Quote(str) == <<34>> \o Escape(str) \o <<34>>
JsonNull == <<110, 117, 108, 108>>

\* The payloads of a negotiation: session descriptions (type, sdp) and
\* candidate lists (a nil slice, or up to MaxCandidates candidate strings;
\* of an ICECandidateInit the candidate string is followed).
SDPTypes ==
    {<<111, 102, 102, 101, 114>>, <<97, 110, 115, 119, 101, 114>>,
     <<112, 114, 97, 110, 115, 119, 101, 114>>}
SDPTexts == {<<>>, <<118>>, <<118, 61, 48>>, <<118, 61, 48, 10>>}
Descriptions == [Type : SDPTypes, SDP : SDPTexts]
ZeroDescription == [Type |-> <<>>, SDP |-> <<>>]
CandidateTexts == {<<97>>, <<98, 59>>}
RECURSIVE ListsOf(_)
ListsOf(n) ==
    IF n = 0 THEN {<<>>}
    ELSE ListsOf(n - 1)
         \cup {<<c>> \o l : c \in CandidateTexts,
                            l \in {k \in ListsOf(n - 1) : Len(k) = n - 1}}
CandidateLists ==
    {[nil |-> TRUE, items |-> <<>>]}
    \cup {[nil |-> FALSE, items |-> l] : l \in ListsOf(MaxCandidates)}
NilCandidates == [nil |-> TRUE, items |-> <<>>]

\* json.Marshal of a session description: {"type":"...","sdp":"..."}
MarshalDescription(d) ==
    <<123>> \o Quote(<<116, 121, 112, 101>>) \o <<58>> \o Quote(d.Type)
    \o <<44>> \o Quote(<<115, 100, 112>>) \o <<58>> \o Quote(d.SDP) \o <<125>>

\* json.Marshal of a candidate list: null for a nil slice, else
\* [{"candidate":"..."},...]
RECURSIVE MarshalItems(_)
MarshalItems(items) ==
    IF items = <<>> THEN <<>>
    ELSE <<123>> \o Quote(<<99, 97, 110, 100, 105, 100, 97, 116, 101>>)
         \o <<58>> \o Quote(Head(items)) \o <<125>>
         \o (IF Len(items) > 1 THEN <<44>> ELSE <<>>)
         \o MarshalItems(Tail(items))
MarshalCandidates(l) ==
    IF l.nil THEN JsonNull ELSE <<91>> \o MarshalItems(l.items) \o <<93>>

\* The JSON decoder's scanning: a literal that must come next, and a quoted
\* string with its escapes.
HasPrefix(b, lit) == Len(b) >= Len(lit) /\ SubSeq(b, 1, Len(lit)) = lit
After(b, lit) == SubSeq(b, Len(lit) + 1, Len(b))
RECURSIVE ScanString(_)
ScanString(b) ==
    LET bad == [ok |-> FALSE, str |-> <<>>, rest |-> <<>>]
        esc == ScanString(Tail(Tail(b)))
        nxt == ScanString(Tail(b))
    IN IF b = <<>> THEN bad
       ELSE IF b[1] = 34 THEN [ok |-> TRUE, str |-> <<>>, rest |-> Tail(b)]
       ELSE IF b[1] = 92
       THEN IF Len(b) < 2 \/ b[2] \notin {34, 92, 110} \/ ~esc.ok THEN bad
            ELSE [esc EXCEPT !.str = <<IF b[2] = 110 THEN 10 ELSE b[2]>> \o @]
       ELSE IF b[1] < 32 \/ ~nxt.ok THEN bad
       ELSE [nxt EXCEPT !.str = <<b[1]>> \o @]
ReadQuoted(b) ==
    IF b = <<>> \/ Head(b) # 34
    THEN [ok |-> FALSE, str |-> <<>>, rest |-> <<>>]
    ELSE ScanString(Tail(b))

\* json.Unmarshal into a session description: null leaves the target as it
\* is; an object gives its fields (SDPType knows its own names only); a
\* text of another shape is an error.
UnmarshalDescription(b) ==
    LET TypeKey == <<123>> \o Quote(<<116, 121, 112, 101>>) \o <<58>>
        SdpKey == <<44>> \o Quote(<<115, 100, 112>>) \o <<58>>
        bad == [err |-> TRUE, v |-> ZeroDescription]
        ty == ReadQuoted(After(b, TypeKey))
        sd == ReadQuoted(After(ty.rest, SdpKey))
    IN IF b = JsonNull THEN [err |-> FALSE, v |-> ZeroDescription]
       ELSE IF ~HasPrefix(b, TypeKey) THEN bad
       ELSE IF ~ty.ok \/ ty.str \notin SDPTypes THEN bad
       ELSE IF ~HasPrefix(ty.rest, SdpKey) THEN bad
       ELSE IF ~sd.ok \/ sd.rest # <<125>> THEN bad
       ELSE [err |-> FALSE, v |-> [Type |-> ty.str, SDP |-> sd.str]]

\* json.Unmarshal into a candidate slice: null gives the nil slice, an
\* array its elements, a text of another shape an error.
RECURSIVE UnmarshalItems(_)
UnmarshalItems(b) ==
    LET CandidateKey ==
            <<123>> \o Quote(<<99, 97, 110, 100, 105, 100, 97, 116, 101>>)
            \o <<58>>
        bad == [err |-> TRUE, items |-> <<>>]
        c == ReadQuoted(After(b, CandidateKey))
        more == UnmarshalItems(Tail(Tail(c.rest)))
    IN IF ~HasPrefix(b, CandidateKey) THEN bad
       ELSE IF ~c.ok THEN bad
       ELSE IF c.rest = <<125, 93>> THEN [err |-> FALSE, items |-> <<c.str>>]
       ELSE IF ~HasPrefix(c.rest, <<125, 44>>) THEN bad
       ELSE IF more.err THEN bad
       ELSE [err |-> FALSE, items |-> <<c.str>> \o more.items]
UnmarshalCandidates(b) ==
    LET bad == [err |-> TRUE, v |-> NilCandidates]
        l == UnmarshalItems(Tail(b))
    IN IF b = JsonNull THEN [err |-> FALSE, v |-> NilCandidates]
       ELSE IF b = <<91, 93>>
       THEN [err |-> FALSE, v |-> [nil |-> FALSE, items |-> <<>>]]
       ELSE IF ~HasPrefix(b, <<91>>) THEN bad
       ELSE IF l.err THEN bad
       ELSE [err |-> FALSE, v |-> [nil |-> FALSE, items |-> l.items]]

\* gzip: the member header, the data (deflate is modelled as stored bytes)
\* and the trailer (CRC32 modelled as the byte sum, and the length).
GzipHeader == <<31, 139, 8>>
RECURSIVE ByteSum(_)
ByteSum(b) == IF b = <<>> THEN 0 ELSE (Head(b) + ByteSum(Tail(b))) % 256
GzipTrailer(b) == <<ByteSum(b), Len(b) % 256>>
signalZip(in) == GzipHeader \o in \o GzipTrailer(in)

\* signalUnzip: gzip.NewReader fails on a bad header and io.ReadAll on a
\* bad trailer; both make it panic.
signalUnzip(in) ==
    LET n == Len(in)
        data == SubSeq(in, Len(GzipHeader) + 1, n - 2)
    IN IF n < Len(GzipHeader) + 2 THEN [panic |-> TRUE, b |-> <<>>]
       ELSE IF SubSeq(in, 1, Len(GzipHeader)) # GzipHeader
               \/ SubSeq(in, n - 1, n) # GzipTrailer(data)
       THEN [panic |-> TRUE, b |-> <<>>]
       ELSE [panic |-> FALSE, b |-> data]

\* base64.StdEncoding: the alphabet A-Z a-z 0-9 + /, padded with =.
B64Char(v) ==
    IF v < 26 THEN 65 + v
    ELSE IF v < 52 THEN 97 + (v - 26)
    ELSE IF v < 62 THEN 48 + (v - 52)
    ELSE IF v = 62 THEN 43 ELSE 47
B64Val(c) ==
    IF c >= 65 /\ c <= 90 THEN c - 65
    ELSE IF c >= 97 /\ c <= 122 THEN c - 97 + 26
    ELSE IF c >= 48 /\ c <= 57 THEN c - 48 + 52
    ELSE IF c = 43 THEN 62
    ELSE IF c = 47 THEN 63 ELSE -1
B64Pad == 61

RECURSIVE Base64Encode(_)
Base64Encode(b) ==
    IF b = <<>> THEN <<>>
    ELSE IF Len(b) = 1
    THEN <<B64Char(b[1] \div 4), B64Char((b[1] % 4) * 16), B64Pad, B64Pad>>
    ELSE IF Len(b) = 2
    THEN <<B64Char(b[1] \div 4),
           B64Char((b[1] % 4) * 16 + b[2] \div 16),
           B64Char((b[2] % 16) * 4), B64Pad>>
    ELSE <<B64Char(b[1] \div 4),
           B64Char((b[1] % 4) * 16 + b[2] \div 16),
           B64Char((b[2] % 16) * 4 + b[3] \div 64),
           B64Char(b[3] % 64)>> \o Base64Encode(SubSeq(b, 4, Len(b)))

\* DecodeString: \r and \n are skipped; four characters give three bytes;
\* padding is allowed in the last group only (its spare bits are not
\* looked at); any other character, or a length that is no multiple of
\* four, is an error.
RECURSIVE Base64DecodeGroups(_)
Base64DecodeGroups(str) ==
    IF str = <<>> THEN [err |-> FALSE, b |-> <<>>]
    ELSE IF Len(str) < 4 THEN [err |-> TRUE, b |-> <<>>]
    ELSE
      LET v1 == B64Val(str[1])
          v2 == B64Val(str[2])
          v3 == B64Val(str[3])
          v4 == B64Val(str[4])
          last == Len(str) = 4
          rest == Base64DecodeGroups(SubSeq(str, 5, Len(str)))
      IN IF v1 < 0 \/ v2 < 0 THEN [err |-> TRUE, b |-> <<>>]
         ELSE IF last /\ str[3] = B64Pad /\ str[4] = B64Pad
         THEN [err |-> FALSE, b |-> <<v1 * 4 + v2 \div 16>>]
         ELSE IF last /\ v3 >= 0 /\ str[4] = B64Pad
         THEN [err |-> FALSE,
               b |-> <<v1 * 4 + v2 \div 16, (v2 % 16) * 16 + v3 \div 4>>]
         ELSE IF v3 < 0 \/ v4 < 0 \/ rest.err
         THEN [err |-> TRUE, b |-> <<>>]
         ELSE [err |-> FALSE,
               b |-> <<v1 * 4 + v2 \div 16,
                       (v2 % 16) * 16 + v3 \div 4,
                       (v3 % 4) * 64 + v4>> \o rest.b]
Base64Decode(str) ==
    Base64DecodeGroups(SelectSeq(str, LAMBDA c : c \notin {10, 13}))

\* signalEncode: json.Marshal, signalZip (compress is true), base64.
signalEncodeDescription(d) == Base64Encode(signalZip(MarshalDescription(d)))
signalEncodeCandidates(l) == Base64Encode(signalZip(MarshalCandidates(l)))

\* signalDecode: base64, signalUnzip, json.Unmarshal; each error panics.
signalDecodeDescription(in) ==
    LET raw == Base64Decode(in)
        unz == signalUnzip(raw.b)
        obj == UnmarshalDescription(unz.b)
    IN [panic |-> raw.err \/ unz.panic \/ obj.err, v |-> obj.v]
signalDecodeCandidates(in) ==
    LET raw == Base64Decode(in)
        unz == signalUnzip(raw.b)
        obj == UnmarshalCandidates(unz.b)
    IN [panic |-> raw.err \/ unz.panic \/ obj.err, v |-> obj.v]

\* signalEncode and signalDecode step by step, for one payload: json.Marshal,
\* signalZip, EncodeToString; then DecodeString, signalUnzip, json.Unmarshal.
\* A panic of a step ends the run.
SignalStage(stage, data) == signal' = [signal EXCEPT !.stage = stage, !.data = data]
Payloads ==
    {<<"description", d>> : d \in Descriptions}
    \cup {<<"candidates", l>> : l \in CandidateLists}
EncodeMarshal(kind, p) ==
    /\ signal.stage = "idle"
    /\ signal' = [stage |-> "json", kind |-> kind, payload |-> p,
                  data |-> IF kind = "description" THEN MarshalDescription(p)
                           ELSE MarshalCandidates(p)]
    /\ UNCHANGED <<regVars, bridgeVars, serverVars, clientVars, emitterVars, mediaVars, utilVars>>
EncodeZip ==
    /\ signal.stage = "json"
    /\ SignalStage("zipped", signalZip(signal.data))
    /\ UNCHANGED <<regVars, bridgeVars, serverVars, clientVars, emitterVars, mediaVars, utilVars>>
EncodeBase64 ==
    /\ signal.stage = "zipped"
    /\ SignalStage("envelope", Base64Encode(signal.data))
    /\ UNCHANGED <<regVars, bridgeVars, serverVars, clientVars, emitterVars, mediaVars, utilVars>>
DecodeBase64 ==
    /\ signal.stage = "envelope"
    /\ LET raw == Base64Decode(signal.data)
       IN IF raw.err THEN SignalStage("panicked", <<>>)
          ELSE SignalStage("bytes", raw.b)
    /\ UNCHANGED <<regVars, bridgeVars, serverVars, clientVars, emitterVars, mediaVars, utilVars>>
DecodeUnzip ==
    /\ signal.stage = "bytes"
    /\ LET unz == signalUnzip(signal.data)
       IN IF unz.panic THEN SignalStage("panicked", <<>>)
          ELSE SignalStage("text", unz.b)
    /\ UNCHANGED <<regVars, bridgeVars, serverVars, clientVars, emitterVars, mediaVars, utilVars>>
DecodeUnmarshal ==
    /\ signal.stage = "text"
    /\ LET obj == IF signal.kind = "description"
                  THEN UnmarshalDescription(signal.data)
                  ELSE UnmarshalCandidates(signal.data)
       IN IF obj.err THEN SignalStage("panicked", <<>>)
          ELSE SignalStage("decoded", obj.v)
    /\ UNCHANGED <<regVars, bridgeVars, serverVars, clientVars, emitterVars, mediaVars, utilVars>>

\* ------------------------------------------------------------ HandleSDP
\* The Call is stored although the transport could not be made.
createCallStoresAnyway(o, tm, r, ok) ==
    /\ nCalls < MaxCalls
    /\ o = nCalls + 1
    /\ now' = tm
    /\ nCalls' = o
    /\ call' = [call EXCEPT ![o] = NewCallObj(newCallID(tm, r))]
    /\ overwrites' = overwrites
    /\ calls' = storeCall(calls, newCallID(tm, r), o)

\* createCall: a failing NewPeerConnection (or media-engine set-up) returns
\* the error and stores nothing; else the Call gets a fresh id and is
\* stored.
createCall(o, tm, r, ok) ==
    LET id == newCallID(tm, r) IN
    IF ok
    THEN /\ nCalls < MaxCalls
         /\ o = nCalls + 1
         /\ now' = tm
         /\ nCalls' = o
         /\ call' = [call EXCEPT ![o] = NewCallObj(id)]
         /\ overwrites' = overwrites + (IF calls[id] # NoCall THEN 1 ELSE 0)
         /\ calls' = storeCall(calls, id, o)
    ELSE UNCHANGED <<now, nCalls, call, overwrites, calls>>

\* Steps 5-8: setupPeerCallbacks registers the state callbacks; then the
\* transceiver, the candidate collector, setupAudioReceiver and
\* setupAudioSender. The errors of the transceiver and of the sender are
\* logged and the handshake goes on: the sender then has no track. (Without
\* a transceiver setupAudioSender returns nil at once.)
SDPSetup(o, transOk, senderOk) ==
    peer' = [peer EXCEPT ![o] = [NoPeer EXCEPT !.callbacks = TRUE,
                                               !.track = transOk /\ senderOk]]

\* strings.TrimSpace: leading and trailing white space is cut.
IsSpace(c) == c \in {9, 10, 11, 12, 13, 32}
RECURSIVE TrimSpace(_)
TrimSpace(str) ==
    IF str = <<>> THEN str
    ELSE IF IsSpace(Head(str)) THEN TrimSpace(Tail(str))
    ELSE IF IsSpace(str[Len(str)]) THEN TrimSpace(SubSeq(str, 1, Len(str) - 1))
    ELSE str

\* strings.Split(payload, ";"): the texts between the separators.
Separator == 59
RECURSIVE Split(_)
Split(str) ==
    IF \A i \in 1..Len(str) : str[i] # Separator THEN <<str>>
    ELSE LET i == CHOOSE k \in 1..Len(str) :
                     /\ str[k] = Separator
                     /\ \A j \in 1..(k - 1) : str[j] # Separator
         IN <<SubSeq(str, 1, i - 1)>> \o Split(SubSeq(str, i + 1, Len(str)))

\* Two parts at least are taken for a well-formed body.
TwoPartsOrMore(parts) == Len(parts) >= 2

\* if len(parts) != 2 { 400 }
WellFormed(parts) == Len(parts) = 2

\* The requests POSTed to /sdp that the model follows: the envelopes of an
\* offer and of a candidate list, in good and bad arrangements.
Bodies ==
    LET GoodOffer ==
            signalEncodeDescription([Type |-> <<111, 102, 102, 101, 114>>,
                                     SDP |-> <<118, 61, 48>>])
        GoodCandidates ==
            signalEncodeCandidates([nil |-> FALSE, items |-> <<(<<98, 59>>)>>])
        NotBase64 == <<33, 33, 33, 33>>
        NotGzip == Base64Encode(MarshalCandidates(NilCandidates))
        NotJson == Base64Encode(signalZip(<<123>>))
    IN { GoodOffer \o <<Separator>> \o GoodCandidates,
         <<32, 10>> \o GoodOffer \o <<Separator>> \o GoodCandidates
             \o <<13, 10>>,
         <<>>,
         GoodOffer,
         <<Separator>>,
         GoodOffer \o <<Separator>> \o GoodCandidates \o <<Separator>>,
         GoodOffer \o <<Separator, Separator>> \o GoodCandidates,
         NotBase64 \o <<Separator>> \o GoodCandidates,
         GoodOffer \o <<Separator>> \o NotGzip,
         NotJson \o <<Separator>> \o GoodCandidates,
         GoodCandidates \o <<Separator>> \o GoodOffer }
Requests ==
    { [method |-> "POST", readOk |-> TRUE, body |-> b] : b \in Bodies }
    \cup { [method |-> "GET", readOk |-> TRUE, body |-> <<>>],
           [method |-> "POST", readOk |-> FALSE, body |-> <<>>] }

\* Steps 1-3 of HandleSDP: the method, io.ReadAll ("400_unread" is the 400
\* of a body that could not be read), the split of the trimmed body and the
\* decoding of both envelopes. signalDecode panics on a bad
\* envelope: net/http recovers the panic and drops the request.
ParseRequest(req) ==
    LET parts == Split(TrimSpace(req.body)) IN
    IF req.method # "POST" THEN "405"
    ELSE IF ~req.readOk THEN "400_unread"
    ELSE IF ~WellFormed(parts) THEN "400"
    ELSE IF signalDecodeDescription(parts[1]).panic THEN "decode_panic"
    ELSE IF signalDecodeCandidates(parts[2]).panic THEN "decode_panic"
    ELSE "decoded"

\* What steps 1-3 make of each request of the model, as a table of
\* <<request, outcome>> pairs.
RequestOutcomes == { <<req, ParseRequest(req)>> : req \in Requests }
RequestOutcome(req) ==
    CHOOSE o \in {"405", "400_unread", "400", "decode_panic", "decoded"} :
        <<req, o>> \in RequestOutcomes

\* Steps 1-8: the request is parsed, then createCall and the set-up of the
\* new transport.
HandleSDP(t, req, created, tm, r, transOk, senderOk) ==
    /\ CanStart(t)
    /\ IF RequestOutcome(req) # "decoded"
       THEN /\ Finish(t, "sdp", NoCall, RequestOutcome(req))
            /\ UNCHANGED <<now, calls, nCalls, call, peer, overwrites>>
       ELSE /\ createCall(nCalls + 1, tm, r, created)
            /\ IF created
               THEN /\ SDPSetup(nCalls + 1, transOk, senderOk)
                    /\ thr' = Begin(t, "sdp", nCalls + 1, "sdp_negotiate")
                    /\ UNCHANGED response
               ELSE /\ Finish(t, "sdp", NoCall, "500")
                    /\ UNCHANGED peer
    /\ UNCHANGED <<agent, proc, removals>>
    /\ UNCHANGED <<bridgeVars, libVars>>

\* The calls of steps 9-10 into the transport, in order, and the status
\* HandleSDP answers with when the call fails.
NegotiationSteps == <<"SetRemoteDescription", "AddICECandidate",
                      "CreateAnswer", "SetLocalDescription">>
FailureStatus(step) ==
    IF step \in {"SetRemoteDescription", "AddICECandidate"} THEN "400" ELSE "500"

\* The answer: the envelopes of the local description and of the local
\* candidates, joined by ";", and the X-Call-ID header.
LocalDescription ==
    [Type |-> <<97, 110, 115, 119, 101, 114>>, SDP |-> <<118, 61, 48, 10>>]
GatheredCandidates ==
    {[nil |-> FALSE, items |-> <<>>], [nil |-> FALSE, items |-> <<(<<97>>)>>]}
AnswerBodies ==
    { <<l, signalEncodeDescription(LocalDescription) \o <<Separator>>
           \o signalEncodeCandidates(l)>> :
          l \in {c \in CandidateLists : ~c.nil} }
AnswerBody(localCandidates) ==
    (CHOOSE p \in AnswerBodies : p[1] = localCandidates)[2]
Answer(o, localCandidates) ==
    [kind |-> "sdp", call |-> o, resp |-> "200", id |-> call[o].ID,
     body |-> AnswerBody(localCandidates)]

\* What HandleSDP does when a negotiation call returns an error: it answers
\* with the status and returns.
SDPFail(t, step) ==
    /\ Finish(t, "sdp", thr[t].call, FailureStatus(step))
    /\ UNCHANGED <<calls, call, peer, removals>>

\* Steps 9-11: the negotiation calls, each of which may fail (a closed
\* transport fails them), <-gatherComplete, and the answer with the
\* X-Call-ID header.
SDPNegotiate(t, failAt, localCandidates) ==
    /\ At(t, "sdp_negotiate")
    /\ IF failAt = 0
       THEN /\ ~peer[thr[t].call].closed
            /\ thr' = [thr EXCEPT ![t] = DoneThread]
            /\ response' = Answer(thr[t].call, localCandidates)
            /\ UNCHANGED <<calls, call, peer, removals>>
       ELSE SDPFail(t, NegotiationSteps[failAt])
    /\ UNCHANGED <<now, nCalls, agent, proc, overwrites>>
    /\ UNCHANGED <<bridgeVars, libVars>>

\* ------------------------------------------- HandleSDP, call by call
\* Lines 322-399 for one request that was decoded and whose Call was
\* created: the calls HandleSDP makes on the transport, in program order,
\* and what the transport's gatherer does meanwhile. shake.log is the
\* sequence of the calls made and of the gatherer's completion.
\* The receiver is wired after the offer has been applied.
OfferBeforeReceiver(step) ==
    LET order == <<"setupPeerCallbacks", "AddTransceiverFromKind",
                   "OnICECandidate", "SetRemoteDescription",
                   "setupAudioReceiver", "setupAudioSender",
                   "AddICECandidate", "CreateAnswer", "SetLocalDescription",
                   "Write">>
    IN order[(CHOOSE i \in 1..Len(order) : order[i] = step) + 1]

\* The statement that follows a call in HandleSDP.
HandshakeSteps ==
    <<"setupPeerCallbacks", "AddTransceiverFromKind", "OnICECandidate",
      "setupAudioReceiver", "setupAudioSender", "SetRemoteDescription",
      "AddICECandidate", "CreateAnswer", "SetLocalDescription", "Write">>
StepAfter(step) ==
    HandshakeSteps[(CHOOSE i \in 1..Len(HandshakeSteps) :
                        HandshakeSteps[i] = step) + 1]

\* The call returned without an error (or with one that is only logged).
Called(step) ==
    [shake EXCEPT !.log = Append(@, step), !.pc = StepAfter(step)]
\* The call returned an error: http.Error with its status, and return.
Rejected(step) ==
    [shake EXCEPT !.log = Append(@, step), !.pc = "returned",
                  !.resp = FailureStatus(step)]

\* The request has been decoded and createCall has returned the Call.
BeginHandshake(remoteCandidates) ==
    /\ shake.pc = "idle"
    /\ shake' = [shake EXCEPT !.pc = HandshakeSteps[1],
                              !.remote = remoteCandidates.items]
    /\ UNCHANGED <<regVars, bridgeVars, signalVars, serverVars, clientVars,
                   emitterVars, inbound, utilVars>>

\* 325: setupPeerCallbacks(peer, call)
setupPeerCallbacks ==
    /\ shake.pc = "setupPeerCallbacks"
    /\ shake' = Called("setupPeerCallbacks")
    /\ UNCHANGED <<regVars, bridgeVars, signalVars, serverVars, clientVars,
                   emitterVars, inbound, utilVars>>

\* 332-355: AddTransceiverFromKind, OnICECandidate(collector),
\* setupAudioReceiver (peer.OnTrack) and setupAudioSender; their errors are
\* logged and the handshake goes on.
SetupCall(step) ==
    /\ step \in {"AddTransceiverFromKind", "OnICECandidate",
                 "setupAudioReceiver", "setupAudioSender"}
    /\ shake.pc = step
    /\ shake' = Called(step)
    /\ UNCHANGED <<regVars, bridgeVars, signalVars, serverVars, clientVars,
                   emitterVars, inbound, utilVars>>

\* 358-361: SetRemoteDescription(remoteOffer)
SetRemoteDescription(ok) ==
    /\ shake.pc = "SetRemoteDescription"
    /\ shake' = IF ok THEN Called("SetRemoteDescription")
                ELSE Rejected("SetRemoteDescription")
    /\ UNCHANGED <<regVars, bridgeVars, signalVars, serverVars, clientVars,
                   emitterVars, inbound, utilVars>>

\* The candidates are taken from the end of the list.
LastFirst(remoteCandidates, k) ==
    remoteCandidates[Len(remoteCandidates) + 1 - k]

\* for _, c := range remoteCandidates: the k-th candidate of the loop.
RangeAt(remoteCandidates, k) == remoteCandidates[k]

\* 364-370: one turn of the loop over the remote candidates, or its end
\* when the list is exhausted.
AddICECandidate(ok) ==
    LET k == Len(shake.applied) + 1 IN
    /\ shake.pc = "AddICECandidate"
    /\ shake' =
          IF k > Len(shake.remote)
          THEN [shake EXCEPT !.pc = StepAfter("AddICECandidate")]
          ELSE IF ok
          THEN [shake EXCEPT
                  !.log = Append(@, "AddICECandidate"),
                  !.applied = Append(@, RangeAt(shake.remote, k))]
          ELSE Rejected("AddICECandidate")
    /\ UNCHANGED <<regVars, bridgeVars, signalVars, serverVars, clientVars,
                   emitterVars, inbound, utilVars>>

\* 373-377: CreateAnswer(nil)
CreateAnswer(ok) ==
    /\ shake.pc = "CreateAnswer"
    /\ shake' = IF ok THEN Called("CreateAnswer")
                ELSE Rejected("CreateAnswer")
    /\ UNCHANGED <<regVars, bridgeVars, signalVars, serverVars, clientVars,
                   emitterVars, inbound, utilVars>>

\* 380-384: GatheringCompletePromise(peer), then SetLocalDescription(answer),
\* which starts the gatherer.
SetLocalDescription(ok) ==
    /\ shake.pc = "SetLocalDescription"
    /\ shake' = IF ok
                THEN [Called("SetLocalDescription") EXCEPT
                        !.gather = "gathering"]
                ELSE Rejected("SetLocalDescription")
    /\ UNCHANGED <<regVars, bridgeVars, signalVars, serverVars, clientVars,
                   emitterVars, inbound, utilVars>>

\* The collector puts the newest candidate first.
CollectNewestFirst(localCandidates, c) ==
    IF c = <<>> THEN localCandidates ELSE <<c>> \o localCandidates

\* 342-349, the collector: if c != nil { localCandidates = append(...) }.
\* The nil candidate is the empty text here.
Collect(localCandidates, c) ==
    IF c = <<>> THEN localCandidates ELSE Append(localCandidates, c)

\* The gatherer has found a candidate and hands it to the collector, if one
\* is registered. It calls the collector from one goroutine, candidate after
\* candidate.
CandidateFound(c) ==
    /\ shake.gather = "gathering"
    /\ Len(shake.discovered) < MaxCandidates
    /\ shake' = [shake EXCEPT
                   !.discovered = Append(@, c),
                   !.localCandidates =
                       IF \E i \in 1..Len(shake.log) :
                              shake.log[i] = "OnICECandidate"
                       THEN Collect(@, c) ELSE @]
    /\ UNCHANGED <<regVars, bridgeVars, signalVars, serverVars, clientVars,
                   emitterVars, inbound, utilVars>>

\* The gatherer has finished: the promise's channel is closed and the
\* collector gets the nil candidate.
GatheringFinished ==
    /\ shake.gather = "gathering"
    /\ shake' = [shake EXCEPT
                   !.gather = "complete",
                   !.log = Append(@, "gatherComplete"),
                   !.localCandidates = Collect(@, <<>>)]
    /\ UNCHANGED <<regVars, bridgeVars, signalVars, serverVars, clientVars,
                   emitterVars, inbound, utilVars>>

\* The handler does not wait.
NeverWaits(gather) == TRUE

\* 386: <-gatherComplete returns once the channel is closed.
GatherComplete(gather) == gather = "complete"

\* 386-399: <-gatherComplete, then the answer is encoded and written.
WriteAnswer ==
    /\ shake.pc = "Write"
    /\ GatherComplete(shake.gather)
    /\ shake' = [shake EXCEPT
                   !.log = Append(@, "Write"),
                   !.pc = "returned",
                   !.resp = "200",
                   !.body = AnswerBody([nil |-> FALSE,
                                        items |-> shake.localCandidates])]
    /\ UNCHANGED <<regVars, bridgeVars, signalVars, serverVars, clientVars,
                   emitterVars, inbound, utilVars>>

\* --------------------------------------------------- setupAudioReceiver
\* const IdleHangupSeconds = 0: the shipped value, and the positive values
\* the constant may be given.
IdleHangupSeconds == 0
IdleThresholds == {IdleHangupSeconds} \cup (1..MaxThreshold)

\* The timer is left as it is.
TimerUntouched(in) == in

\* 1010-1018: if timer != nil { if !timer.Stop() { drain timer.C };
\* timer.Reset(IdleHangupSeconds s) }
RestartTimer(in) ==
    IF in.timer = "none" THEN in
    ELSE [in EXCEPT !.timer = "running", !.remaining = in.threshold,
                    !.timerC = FALSE]

\* Nothing runs when the callback returns.
NothingDeferred(in) == [in EXCEPT !.pc = "returned"]

\* The return of the callback runs its deferred calls: timer.Stop() (which
\* leaves a value already sent on timer.C where it is) and ogg.Close().
Deferred(in) ==
    [in EXCEPT !.pc = "returned",
               !.timer = IF @ = "running" THEN "stopped" ELSE @,
               !.sink = "closed"]

\* 974-1002: the OnTrack callback up to its loop. A track that is not audio
\* is ignored; without a sink the callback returns; else the sink is open
\* and, with a positive threshold, the timer is armed and the watchdog
\* goroutine waits on timer.C.
OnTrack(audio, sinkOk, threshold) ==
    /\ inbound.pc = "none"
    /\ inbound' =
          IF ~audio THEN [inbound EXCEPT !.pc = "ignored"]
          ELSE IF ~sinkOk THEN [inbound EXCEPT !.pc = "no_sink"]
          ELSE [inbound EXCEPT
                  !.pc = "reading",
                  !.sink = "open",
                  !.threshold = threshold,
                  !.timer = IF threshold > 0 THEN "running" ELSE "none",
                  !.remaining = threshold,
                  !.watchdog = IF threshold > 0 THEN "waiting" ELSE "none"]
    /\ UNCHANGED <<regVars, bridgeVars, signalVars, serverVars, clientVars,
                   emitterVars, shake, utilVars>>

\* 1004-1025: one turn of the read loop. ReadRTP fails on a closed transport
\* (and whenever the track ends); a unit read restarts the timer and is
\* written to the sink; a failed write ends the loop.
ReadOutcomesRTP == {"read_error", "written", "write_error"}
ReadRTP(outcome) ==
    /\ inbound.pc = "reading"
    /\ inbound.peer # "open" => outcome = "read_error"
    /\ IF outcome = "read_error"
       THEN inbound' = Deferred(inbound)
       ELSE /\ inbound.arrived < MaxUnits
            /\ LET got == [RestartTimer(inbound) EXCEPT
                              !.arrived = @ + 1, !.idle = 0]
               IN inbound' =
                     IF outcome = "written"
                     THEN [got EXCEPT !.written = Append(@, got.arrived)]
                     ELSE Deferred(got)
    /\ UNCHANGED <<regVars, bridgeVars, signalVars, serverVars, clientVars,
                   emitterVars, shake, utilVars>>

\* The clock advances by one tick: a running timer that reaches its time
\* sends on timer.C. (The statements of the loop take no time.)
Tick ==
    /\ inbound.pc \in {"reading", "returned"}
    /\ inbound.idle <= MaxThreshold
    /\ inbound' =
          [inbound EXCEPT
             !.idle = @ + 1,
             !.remaining = IF inbound.timer = "running" THEN @ - 1 ELSE @,
             !.timer = IF @ = "running" /\ inbound.remaining = 1
                       THEN "fired" ELSE @,
             !.timerC = IF inbound.timer = "running" /\ inbound.remaining = 1
                        THEN TRUE ELSE @]
    /\ UNCHANGED <<regVars, bridgeVars, signalVars, serverVars, clientVars,
                   emitterVars, shake, utilVars>>

\* 997-1001: the watchdog goroutine: <-timer.C, the log line, peer.Close().
Watchdog ==
    /\ inbound.watchdog = "waiting"
    /\ inbound.timerC
    /\ inbound' = [inbound EXCEPT !.timerC = FALSE, !.watchdog = "done",
                                  !.peer = IF @ = "open" THEN "closed_idle"
                                           ELSE @]
    /\ UNCHANGED <<regVars, bridgeVars, signalVars, serverVars, clientVars,
                   emitterVars, shake, utilVars>>

\* The transport is closed from elsewhere: closeCall's call.PC.Close().
TransportClosed ==
    /\ inbound.pc = "reading"
    /\ inbound.peer = "open"
    /\ inbound' = [inbound EXCEPT !.peer = "closed"]
    /\ UNCHANGED <<regVars, bridgeVars, signalVars, serverVars, clientVars,
                   emitterVars, shake, utilVars>>

\* ------------------------------------------------------------ closeCall
\* _ = call.PC.Close()
PCClose(o) == [peer EXCEPT ![o].closed = TRUE]

\* select { case <-call.Done: default: ... }: the receive succeeds only on a
\* closed channel.
DoneIsClosed(o) == call[o].Done = "closed"

CloseCallSelect(t) ==
    /\ At(t, "cc_select")
    /\ thr' = Goto(t, IF DoneIsClosed(thr[t].call)
                      THEN "cc_delete" ELSE "cc_close_done")
    /\ UNCHANGED <<now, calls, nCalls, call, peer, agent, response, proc,
                   removals, overwrites>>
    /\ UNCHANGED <<bridgeVars, libVars>>

\* close(call.Done). Closing a closed channel panics: net/http recovers the
\* panic of a request goroutine, a callback goroutine takes the process down.
CloseCallCloseDone(t) ==
    LET o == thr[t].call IN
    /\ At(t, "cc_close_done")
    /\ call' = [call EXCEPT ![o].Done = "closed", ![o].doneCloses = @ + 1]
    /\ IF call[o].Done = "closed"
       THEN IF thr[t].kind = "hangup"
            THEN Finish(t, "hangup", o, "close_panic") /\ proc' = proc
            ELSE /\ thr' = Goto(t, "panicked")
                 /\ proc' = "crashed"
                 /\ UNCHANGED response
       ELSE /\ thr' = Goto(t, "cc_delete")
            /\ UNCHANGED <<response, proc>>
    /\ UNCHANGED <<now, calls, nCalls, peer, agent, removals, overwrites>>
    /\ UNCHANGED <<bridgeVars, libVars>>

\* deleteCall(call.ID), then the caller's last lines.
CloseCallDelete(t) ==
    LET o == thr[t].call
        id == call[o].ID
        victim == calls[id]
    IN /\ At(t, "cc_delete")
       /\ calls' = deleteCall(calls, id)
       /\ removals' = IF victim = NoCall THEN removals
                      ELSE [removals EXCEPT ![victim] = @ + 1]
       /\ IF thr[t].kind = "hangup"
          THEN Finish(t, "hangup", o, "200")
          ELSE thr' = Goto(t, "returned") /\ UNCHANGED response
       /\ UNCHANGED <<now, nCalls, call, peer, agent, proc, overwrites>>
       /\ UNCHANGED <<bridgeVars, libVars>>

\* --------------------------------------------------------- HandleHangup
\* An empty id is answered 400, an unknown one 404; else closeCall (its first
\* line, PC.Close(), is part of this step) and 200.
HandleHangup(t, id) ==
    /\ CanStart(t)
    /\ IF loadCall(id) = NoCall
       THEN /\ Finish(t, "hangup", NoCall,
                      IF id = NoID THEN "400" ELSE "404")
            /\ UNCHANGED peer
       ELSE /\ peer' = PCClose(loadCall(id))
            /\ thr' = Begin(t, "hangup", loadCall(id), "cc_select")
            /\ UNCHANGED response
    /\ UNCHANGED <<now, calls, nCalls, call, agent, proc, removals, overwrites>>
    /\ UNCHANGED <<bridgeVars, libVars>>

\* ------------------------------------------------------- peer callbacks
\* The transport runs each notification in a goroutine of its own.
Notifiable(o) == o <= nCalls /\ peer[o].callbacks

\* OnConnectionStateChange: failed and closed call closeCall (its first
\* line, PC.Close(), is part of this step), the other states are logged.
OnConnectionStateChange(t, o, s) ==
    /\ CanStart(t)
    /\ Notifiable(o)
    /\ IF s \in {"failed", "closed"}
       THEN /\ peer' = PCClose(o)
            /\ thr' = Begin(t, "state", o, "cc_select")
       ELSE UNCHANGED <<peer, thr>>
    /\ UNCHANGED response
    /\ UNCHANGED <<now, calls, nCalls, call, agent, proc, removals,
                   overwrites>>
    /\ UNCHANGED <<bridgeVars, libVars>>

\* The callbacks of lines 466-476, by the registration that installs them.
InfoEvents == {"OnSignalingStateChange", "OnNegotiationNeeded",
               "OnICEGatheringStateChange"}

\* The notification tears the session down as a failed state does.
TearsDown(t, o, event) ==
    /\ peer' = PCClose(o)
    /\ thr' = Begin(t, event, o, "cc_select")

\* log.Printf(...) and nothing else: the goroutine of the notification ends.
LogsOnly(t, o, event) ==
    /\ peer' = peer
    /\ thr' = Begin(t, event, o, "logged")

\* OnSignalingStateChange, OnNegotiationNeeded, OnICEGatheringStateChange.
LogCallback(t, o, event) ==
    /\ CanStart(t)
    /\ Notifiable(o)
    /\ LogsOnly(t, o, event)
    /\ UNCHANGED <<now, calls, nCalls, call, agent, response, proc, removals,
                   overwrites>>
    /\ UNCHANGED <<bridgeVars, libVars>>

\* A lock that excludes nobody.
LockNeverWaits(o) == TRUE

\* call.AudioMutex.Lock() waits until the mutex is free.
MutexFree(o) == call[o].AudioMutex = 0

\* OnICEConnectionStateChange: connected takes the mutex, the other states
\* are logged.
OnICEConnectionStateChange(t, o, s) ==
    /\ CanStart(t)
    /\ Notifiable(o)
    /\ IF s = "connected"
       THEN /\ MutexFree(o)
            /\ call' = [call EXCEPT ![o].AudioMutex = t]
            /\ thr' = Begin(t, "ice", o, "ice_test")
       ELSE UNCHANGED <<call, thr>>
    /\ UNCHANGED response
    /\ UNCHANGED <<now, calls, nCalls, peer, agent, proc, removals,
                   overwrites>>
    /\ UNCHANGED <<bridgeVars, libVars>>

\* if !call.AudioStarted ... else { call.AudioMutex.Unlock() }
ICETest(t) ==
    LET o == thr[t].call IN
    /\ At(t, "ice_test")
    /\ IF call[o].AudioStarted
       THEN /\ call' = [call EXCEPT ![o].AudioMutex = 0]
            /\ Return(t)
       ELSE /\ call' = call
            /\ thr' = Goto(t, "ice_set")
            /\ UNCHANGED response
    /\ UNCHANGED <<now, calls, nCalls, peer, agent, proc, removals,
                   overwrites>>
    /\ UNCHANGED <<bridgeVars, libVars>>

\* call.AudioStarted = true; call.AudioMutex.Unlock(); then the loop over
\* the transceivers: go initAgentCall(track) for the first audio transceiver
\* whose sender has a track.
ICESet(t) ==
    LET o == thr[t].call IN
    /\ At(t, "ice_set")
    /\ call' = [call EXCEPT ![o].AudioStarted = TRUE, ![o].AudioMutex = 0]
    /\ agent' = IF peer[o].track
                THEN [agent EXCEPT ![o].starts = @ + 1, ![o].state = "spawned"]
                ELSE agent
    /\ Return(t)
    /\ UNCHANGED <<now, calls, nCalls, peer, proc, removals, overwrites>>
    /\ UNCHANGED <<bridgeVars, libVars>>

\* -------------------------------------------------------- agent pipeline
\* The dynamic type of the webrtc.TrackLocal handed to initAgentCall, and
\* what participant.Connect() and participant.InitializeAudio() return.
TrackKinds == {"TrackLocalStaticSample", "TrackLocalStaticRTP"}
AgentOutcomes == {"ok", "connect_err", "audio_err"}

\* The type assertion is not made: any track is taken for a sample track.
AnyTrackStarts(a, trackLocal, outcome) ==
    IF outcome = "ok"
    THEN [a EXCEPT !.state = "bridging", !.bridge = "open",
                   !.sigHandler = TRUE]
    ELSE [a EXCEPT !.state = IF outcome = "connect_err" THEN "failed"
                             ELSE "no_audio"]

\* initAgentCall's path through its three early returns: the track is no
\* *TrackLocalStaticSample ("no_sample"), Connect fails ("failed": no room),
\* InitializeAudio fails ("no_audio": the room is connected); else it starts
\* the bridge goroutine (which makes the bridge channel) and installs the
\* signal handler.
AgentStarted(a, trackLocal, outcome) ==
    IF trackLocal # "TrackLocalStaticSample"
    THEN [a EXCEPT !.state = "no_sample"]
    ELSE IF outcome = "ok"
    THEN [a EXCEPT !.state = "bridging", !.bridge = "open",
                   !.sigHandler = TRUE]
    ELSE [a EXCEPT !.state = IF outcome = "connect_err" THEN "failed"
                             ELSE "no_audio"]

initAgentCall(o, trackLocal, outcome) ==
    /\ Running
    /\ agent[o].state = "spawned"
    /\ agent' = [agent EXCEPT ![o] = AgentStarted(@, trackLocal, outcome)]
    /\ UNCHANGED <<now, calls, nCalls, call, peer, thr, response, proc,
                   removals, overwrites>>
    /\ UNCHANGED <<bridgeVars, libVars>>

\* for audioData := range audioBuffer ends when the channel is closed.
BridgeLoopExit(o) ==
    /\ Running
    /\ agent[o].state = "bridging"
    /\ agent[o].bridge = "closed"
    /\ agent' = [agent EXCEPT ![o].state = "finished"]
    /\ UNCHANGED <<now, calls, nCalls, call, peer, thr, response, proc,
                   removals, overwrites>>
    /\ UNCHANGED <<bridgeVars, libVars>>

\* SIGINT / SIGTERM: SetupSignalHandling's goroutine runs rp.disconnect(),
\* whose rp.stopAudio() closes the bridge channel when it is set ...
SignalStopAudio(o) ==
    /\ Running
    /\ agent[o].sigHandler
    /\ agent[o].bridge = "open"
    /\ agent' = [agent EXCEPT ![o].bridge = "closed"]
    /\ UNCHANGED <<now, calls, nCalls, call, peer, thr, response, proc,
                   removals, overwrites>>
    /\ UNCHANGED <<bridgeVars, libVars>>

\* ... and then os.Exit(0).
SignalExit(o) ==
    /\ Running
    /\ agent[o].sigHandler
    /\ agent[o].bridge = "closed"
    /\ proc' = "exited"
    /\ UNCHANGED <<now, calls, nCalls, call, peer, agent, thr, response,
                   removals, overwrites>>
    /\ UNCHANGED <<bridgeVars, libVars>>

\* ------------------------------------------- bridgeAgentAudioToWebRTC
\* const samplesPerFrame = 960, channels = 1
samplesPerFrame == 960
channels == 1
FrameSize == samplesPerFrame * channels
FrameBytes == 2 * FrameSize

\* The agent's PCM, as playAudioBuffer produces it: int16(sample * 32767.0)
\* of a sample clamped to [-1, 1]. The stream repeats a pattern whose length
\* has no common factor with the frame size.
AgentSamples == <<0, 1, -1, 255, -256, 32767, -32767>>
AgentSample(k) == AgentSamples[((k - 1) % Len(AgentSamples)) + 1]

\* byte(int16Sample & 0xFF), byte((int16Sample >> 8) & 0xFF)
LoByte(x) == ((x + 65536) % 65536) % 256
HiByte(x) == ((x + 65536) % 65536) \div 256
\* The i-th byte (from 1) of the agent's PCM stream, little endian.
StreamByte(i) ==
    IF i % 2 = 1 THEN LoByte(AgentSample((i + 1) \div 2))
    ELSE HiByte(AgentSample(i \div 2))

\* Big endian: the high byte first.
DecodeHighFirst(b0, b1) ==
    LET u == b0 * 256 + b1 IN IF u >= 32768 THEN u - 65536 ELSE u

\* The two bytes are combined in a wider integer: nothing wraps.
DecodeWide(b0, b1) == b0 + b1 * 256

\* int16(audioData[i*2]) | int16(audioData[i*2+1])<<8, in 16 bits
DecodeLE(b0, b1) ==
    LET u == (b0 + b1 * 256) % 65536 IN IF u >= 32768 THEN u - 65536 ELSE u

\* numSamples := len(audioData) / 2 and the decoding loop
DecodeChunk(audioData) ==
    [i \in 1..(Len(audioData) \div 2) |->
        DecodeLE(audioData[2 * i - 1], audioData[2 * i])]

\* The values of an int16.
Int16 == -32768..32767

\* The loop body of playAudioBuffer on one converted sample:
\* pcmBytes[i*2] = byte(int16Sample & 0xFF),
\* pcmBytes[i*2+1] = byte((int16Sample >> 8) & 0xFF).
EncodeSample(int16Sample) ==
    /\ codec.pc = "idle"
    /\ codec' = [codec EXCEPT !.pc = "encoded", !.int16Sample = int16Sample,
                              !.pcmBytes = <<LoByte(int16Sample),
                                             HiByte(int16Sample)>>]
    /\ UNCHANGED <<coreVars, oggCall, sam, asm, sock>>

\* The bridge's decoding loop on the chunk of that sample.
DecodeSample ==
    /\ codec.pc = "encoded"
    /\ codec' = [codec EXCEPT !.pc = "decoded",
                              !.sample = DecodeChunk(codec.pcmBytes)[1]]
    /\ UNCHANGED <<coreVars, oggCall, sam, asm, sock>>

\* The chunk lengths the consumer is fed.
ChunkLens == {0, 1, 2, FrameBytes - 2, FrameBytes - 1, FrameBytes,
              FrameBytes + 2, 2 * FrameBytes}

\* One iteration of "for audioData := range audioBuffer", up to the inner
\* loop: an empty chunk is skipped, else its samples are appended.
BridgeChunk(n) ==
    LET audioData == [j \in 1..n |-> StreamByte(fed + j)] IN
    /\ chunks < MaxChunks
    /\ Len(pcmBuffer) < FrameSize
    /\ chunks' = chunks + 1
    /\ fed' = fed + n
    /\ oddChunks' = oddChunks + (n % 2)
    /\ pcmBuffer' = IF n = 0 THEN pcmBuffer
                    ELSE pcmBuffer \o DecodeChunk(audioData)
    /\ UNCHANGED <<track, skipped>>
    /\ UNCHANGED <<regVars, chanVars, libVars>>

\* What encoder.Encode and trackLocal.WriteSample may do with a frame.
FrameOutcomes == {"written", "encode_error", "empty", "write_error"}

\* A frame of one sample less.
ShortFrame(buf) == SubSeq(buf, 1, FrameSize - 1)

\* frameData := pcmBuffer[:samplesPerFrame*channels]
FrameData(buf) == SubSeq(buf, 1, FrameSize)

\* The frame stays at the front of the buffer.
SameBuffer(buf) == buf

\* pcmBuffer = pcmBuffer[samplesPerFrame*channels:]
RestOf(buf) == SubSeq(buf, FrameSize + 1, Len(buf))

\* One iteration of "for len(pcmBuffer) >= samplesPerFrame*channels": the
\* frame is sliced off the front, encoded and written; on an error, or when
\* the encoder returns no bytes, the frame is gone.
BridgeFrame(outcome) ==
    /\ Len(pcmBuffer) >= FrameSize
    /\ pcmBuffer' = RestOf(pcmBuffer)
    /\ IF outcome = "written"
       THEN /\ track' = Append(track, FrameData(pcmBuffer))
            /\ UNCHANGED skipped
       ELSE /\ skipped' = skipped + 1
            /\ UNCHANGED track
    /\ UNCHANGED <<fed, chunks, oddChunks>>
    /\ UNCHANGED <<regVars, chanVars, libVars>>

\* ------------------------------------------------- the bridge channel
\* audioBuffer := make(chan []byte, 100)
BridgeCapacity == 100

\* Lines 526-547 of the bridge goroutine: it makes the channel, hands it to
\* the participant (SetAudioBridgeChannel) and creates the encoder; without
\* an encoder it returns and nobody ever receives from the channel.
BridgeStart(encoderOk) ==
    /\ consumer = "none"
    /\ chanState' = "open"
    /\ audioBridgeChannel' = "chan"
    /\ consumer' = IF encoderOk THEN "ranging" ELSE "returned"
    /\ UNCHANGED <<audioBuffer, audioCtxDone, reader, offers, dropLogs>>
    /\ UNCHANGED <<regVars, frameVars, libVars>>

\* for audioData := range audioBuffer: takes the chunk at the head; the loop
\* ends when the channel is closed and drained.
BridgeReceive ==
    /\ consumer = "ranging"
    /\ IF audioBuffer # <<>>
       THEN audioBuffer' = Tail(audioBuffer) /\ UNCHANGED consumer
       ELSE /\ chanState = "closed"
            /\ consumer' = "returned"
            /\ UNCHANGED audioBuffer
    /\ UNCHANGED <<chanState, audioBridgeChannel, audioCtxDone, reader, offers,
                   dropLogs>>
    /\ UNCHANGED <<regVars, frameVars, libVars>>

\* stopAudio, under rp.audioMutex: cancels the context, closes the bridge
\* channel if it is set and forgets it.
stopAudio ==
    /\ audioCtxDone' = TRUE
    /\ chanState' = IF audioBridgeChannel # "nil" THEN "closed" ELSE chanState
    /\ audioBridgeChannel' = "nil"
    /\ UNCHANGED <<audioBuffer, reader, consumer, offers, dropLogs>>
    /\ UNCHANGED <<regVars, frameVars, libVars>>

\* The decoded float32 buffers, in quarters (4 is 1.0): the k-th buffer handed
\* to playAudioBuffer. Lengths 1 to 3, values from -1.5 to 1.5.
DecodedBuffer(k) ==
    [i \in 1..((k % 3) + 1) |-> ((k + 5 * i) % 13) - 6]

\* Stereo is assumed when the length is even: (left + right) * 0.5; else the
\* buffer is taken as mono. In eighths (8 is 1.0).
MonoBuffer(buffer) ==
    IF Len(buffer) % 2 = 0
    THEN [i \in 1..(Len(buffer) \div 2) |-> buffer[2 * i - 1] + buffer[2 * i]]
    ELSE [i \in 1..Len(buffer) |-> 2 * buffer[i]]

\* The clamp to [-1.0, 1.0] and int16(sample * 32767.0), which truncates
\* toward zero.
Clamp(e) == IF e > 8 THEN 8 ELSE IF e < -8 THEN -8 ELSE e
ToInt16(e) ==
    IF Clamp(e) >= 0 THEN (Clamp(e) * 32767) \div 8
    ELSE -((-Clamp(e) * 32767) \div 8)

\* pcmBytes: two bytes per mono sample, little endian.
PcmBytes(buffer) ==
    LET mono == MonoBuffer(buffer) IN
    [j \in 1..(2 * Len(mono)) |->
        IF j % 2 = 1 THEN LoByte(ToInt16(mono[(j + 1) \div 2]))
        ELSE HiByte(ToInt16(mono[j \div 2]))]

\* One iteration of processAudioTrack's loop up to the select of
\* playAudioBuffer: the context check, track.Read, the decoding, and
\* playAudioBuffer's load of rp.audioBridgeChannel under the mutex and its
\* conversion of the buffer.
ReadOutcomes == {"read_error", "no_bytes", "decode_error", "no_samples",
                 "decoded"}
processAudioTrack(outcome) ==
    /\ reader.pc = "read"
    /\ IF audioCtxDone \/ outcome = "read_error"
       THEN reader' = [reader EXCEPT !.pc = "returned"] /\ UNCHANGED offers
       ELSE IF outcome = "decoded" /\ audioBridgeChannel # "nil"
       THEN /\ offers < MaxOffers
            /\ offers' = offers + 1
            /\ reader' = [pc |-> "send", bridgeChannel |-> audioBridgeChannel,
                          pcmBytes |-> PcmBytes(DecodedBuffer(offers + 1))]
       ELSE UNCHANGED <<reader, offers>>
    /\ UNCHANGED <<audioBuffer, chanState, audioBridgeChannel, audioCtxDone,
                   consumer, dropLogs>>
    /\ UNCHANGED <<regVars, frameVars, libVars>>

\* A full channel gives up its oldest chunk for the new one.
SendEvictsOldest(ch, pcmBytes) ==
    IF Len(ch) < BridgeCapacity THEN Append(ch, pcmBytes)
    ELSE Append(Tail(ch), pcmBytes)

\* select { case bridgeChannel <- pcmBytes: default: }: what the channel
\* holds afterwards.
TrySend(ch, pcmBytes) ==
    IF Len(ch) < BridgeCapacity THEN Append(ch, pcmBytes) ELSE ch

\* A discarded chunk leaves no trace.
DropUnreported(ch) == 0

\* default: fmt.Printf("Canal de puente lleno, ..."): the lines the select
\* prints, one when the send could not proceed.
DropLines(ch) == IF Len(ch) < BridgeCapacity THEN 0 ELSE 1

\* The select of playAudioBuffer and the return to the read loop. A send on
\* a closed channel panics.
playAudioBuffer ==
    /\ reader.pc = "send"
    /\ IF chanState = "closed"
       THEN /\ reader' = [reader EXCEPT !.pc = "panicked"]
            /\ UNCHANGED <<audioBuffer, dropLogs>>
       ELSE /\ audioBuffer' = TrySend(audioBuffer, reader.pcmBytes)
            /\ dropLogs' = dropLogs + DropLines(audioBuffer)
            /\ reader' = [pc |-> "read", bridgeChannel |-> "nil",
                          pcmBytes |-> <<>>]
    /\ UNCHANGED <<chanState, audioBridgeChannel, audioCtxDone, consumer,
                   offers>>
    /\ UNCHANGED <<regVars, frameVars, libVars>>

\* ------------------------------------------------------------ server.go
\* The bodies POSTed to /start-call, and a request of another method.
StartCallRequests ==
    [method : {"POST"}, jsonOk : {TRUE}, SessionID : SessionIDs,
     AccessToken : {"token"}]
    \cup {[method |-> "GET", jsonOk |-> TRUE, SessionID |-> "s1",
           AccessToken |-> "token"],
          [method |-> "POST", jsonOk |-> FALSE, SessionID |-> "",
           AccessToken |-> ""],
          [method |-> "POST", jsonOk |-> TRUE, SessionID |-> "",
           AccessToken |-> "token"],
          [method |-> "POST", jsonOk |-> TRUE, SessionID |-> "s1",
           AccessToken |-> ""]}

SrvDone(q, resp) == srv' = [srv EXCEPT ![q].pc = "done", ![q].resp = resp]

\* existingSession, exists := s.clients[req.SessionID]; exists &&
\* existingSession.IsActive
ExistsActive(sid) ==
    clients[sid] # NoSession /\ session[clients[sid]].IsActive

\* startCallHandler up to s.mutex.RUnlock(): the method, the JSON body, the
\* required fields, and the look-up under the read lock.
StartCallCheck(q, req) ==
    /\ srv[q].pc = "idle"
    /\ \A p \in 1..(q - 1) : srv[p].pc # "idle"
    /\ IF req.method # "POST" THEN SrvDone(q, "405")
       ELSE IF ~req.jsonOk \/ req.SessionID = "" \/ req.AccessToken = ""
       THEN SrvDone(q, "400")
       ELSE IF ExistsActive(req.SessionID) THEN SrvDone(q, "409")
       ELSE srv' = [srv EXCEPT ![q].pc = "create", ![q].sid = req.SessionID]
    /\ UNCHANGED <<clients, session, nSessions>>
    /\ UNCHANGED <<regVars, bridgeVars, signalVars, clientVars, emitterVars, mediaVars, utilVars>>

\* NewRetellWebClient, the ClientSession with IsActive false, and
\* s.clients[req.SessionID] = session under the write lock.
StartCallStore(q) ==
    /\ srv[q].pc = "create"
    /\ nSessions' = nSessions + 1
    /\ session' = [session EXCEPT ![nSessions + 1] =
                       [ID |-> srv[q].sid, IsActive |-> FALSE,
                        started |-> FALSE]]
    /\ clients' = [clients EXCEPT ![srv[q].sid] = nSessions + 1]
    /\ srv' = [srv EXCEPT ![q].pc = "start", ![q].session = nSessions + 1]
    /\ UNCHANGED <<regVars, bridgeVars, signalVars, clientVars, emitterVars, mediaVars, utilVars>>

\* retellClient.StartCall(config): on an error the entry of the id is deleted
\* and 500 is answered.
StartCallStart(q, ok) ==
    /\ srv[q].pc = "start"
    /\ IF ok
       THEN /\ session' = [session EXCEPT ![srv[q].session].started = TRUE]
            /\ srv' = [srv EXCEPT ![q].pc = "activate"]
            /\ UNCHANGED clients
       ELSE /\ clients' = [clients EXCEPT ![srv[q].sid] = NoSession]
            /\ SrvDone(q, "500")
            /\ UNCHANGED session
    /\ UNCHANGED nSessions
    /\ UNCHANGED <<regVars, bridgeVars, signalVars, clientVars, emitterVars, mediaVars, utilVars>>

\* session.IsActive = true under the session's lock, and the 200.
StartCallActivate(q) ==
    /\ srv[q].pc = "activate"
    /\ session' = [session EXCEPT ![srv[q].session].IsActive = TRUE]
    /\ SrvDone(q, "200")
    /\ UNCHANGED <<clients, nSessions>>
    /\ UNCHANGED <<regVars, bridgeVars, signalVars, clientVars, emitterVars, mediaVars, utilVars>>

\* ---------------------------------------------------- retellAI/events.go
\* How often a handler stands in a list.
RECURSIVE Count(_, _)
Count(hs, h) ==
    IF hs = <<>> THEN 0
    ELSE (IF Head(hs) = h THEN 1 ELSE 0) + Count(Tail(hs), h)

\* Emit: the handlers of the event are copied under the read lock and each
\* is started in a goroutine of its own.
Emit(event) ==
    /\ emitted' = [emitted EXCEPT ![event] = @ + 1]
    /\ invocations' = [h \in Handlers |->
                          invocations[h] + Count(listeners[event], h)]
    /\ UNCHANGED <<listeners, offed>>

\* On: the handler is appended to the list of the event.
On(event, handler) ==
    /\ Len(listeners[event]) < MaxListeners
    /\ listeners' = [listeners EXCEPT ![event] = Append(@, handler)]
    /\ offed' = offed \ {<<event, handler>>}
    /\ UNCHANGED <<invocations, emitted>>
    /\ UNCHANGED <<regVars, bridgeVars, signalVars, serverVars, clientVars, mediaVars, utilVars>>

\* Off: with a nil handler every listener of the event is deleted
\* (delete(e.listeners, event)); with a handler the body is a comment and
\* the list stays as it is.
Off(event, handler) ==
    /\ listeners' = [listeners EXCEPT ![event] =
                         IF handler = NoHandler THEN <<>> ELSE @]
    /\ offed' = IF handler = NoHandler THEN offed
                ELSE offed \cup {<<event, handler>>}
    /\ UNCHANGED <<invocations, emitted>>
    /\ UNCHANGED <<regVars, bridgeVars, signalVars, serverVars, clientVars, mediaVars, utilVars>>

\* An event emitted by the client's callbacks.
EmitEvent(event) ==
    /\ emitted["call_started"] + emitted["call_ended"] + emitted["error"]
       < MaxEmits
    /\ Emit(event)
    /\ UNCHANGED <<regVars, bridgeVars, signalVars, serverVars, clientVars, mediaVars, utilVars>>

\* ---------------------------------------------------- retellAI/client.go
\* What can happen inside StartCall: NewPeerConnection fails; the access
\* token is shorter than the ten characters connectWebSocket slices off (a
\* panic); CreateDataChannel fails; or all succeed.
StartOutcomes == {"pc_error", "short_token", "dc_error", "ok"}

\* The guard is missing.
NeverInProgress(c) == FALSE

\* if r.connected { return errors.New("call already in progress") }
CallInProgress(c) == c.connected

\* StartCall, under r.mutex from the first line to the return.
StartCall(outcome) ==
    /\ IF CallInProgress(client)
       THEN /\ ret' = "call already in progress"
            /\ UNCHANGED <<client, pcs, emitterVars>>
       ELSE /\ pcs < MaxStarts
            /\ emitted["error"] < MaxStarts
            /\ IF outcome = "pc_error"
               THEN /\ client' = [client EXCEPT !.peerConnection = NoPC]
                    /\ pcs' = pcs
                    /\ Emit("error")
                    /\ ret' = "error"
               ELSE IF outcome = "short_token"
               THEN /\ client' = [client EXCEPT !.peerConnection = pcs + 1]
                    /\ pcs' = pcs + 1
                    /\ ret' = "panic"
                    /\ UNCHANGED emitterVars
               ELSE IF outcome = "dc_error"
               THEN /\ client' = [client EXCEPT !.peerConnection = pcs + 1,
                                                !.dataChannel = FALSE]
                    /\ pcs' = pcs + 1
                    /\ Emit("error")
                    /\ ret' = "error"
               ELSE /\ client' = [connected |-> TRUE,
                                  connectionState |-> "connected",
                                  peerConnection |-> pcs + 1,
                                  dataChannel |-> TRUE]
                    /\ pcs' = pcs + 1
                    /\ Emit("call_started")
                    /\ ret' = "nil"
    /\ UNCHANGED <<regVars, bridgeVars, signalVars, serverVars, mediaVars, utilVars>>

\* StopCall: nothing on a client that is not connected; else the transport
\* is closed, the state reset and call_ended emitted.
StopCall ==
    /\ IF ~client.connected
       THEN UNCHANGED <<client, emitterVars>>
       ELSE /\ client' = [client EXCEPT !.connected = FALSE,
                                        !.connectionState = "disconnected",
                                        !.peerConnection = NoPC]
            /\ Emit("call_ended")
    /\ ret' = "none"
    /\ UNCHANGED pcs
    /\ UNCHANGED <<regVars, bridgeVars, signalVars, serverVars, mediaVars, utilVars>>

\* ------------------------------------ package main: the OGG sender
\* var OutOGGPath: the file sent to the caller; it is set in this build.
OutOGGPath == "audio-1755886077.ogg"

\* closeCall on the Call of this handshake.
CloseOggCall(c) ==
    [c EXCEPT !.transport = "closed", !.Done = "closed",
              !.registered = FALSE]

\* handleSDP, steps 4 to 11: createCall (500 when it fails),
\* setupPeerCallbacks, which registers the handler that calls closeCall,
\* the transceiver, and setupAudioSender, which with a file to send, a
\* transceiver and a track in place registers its own handler through
\* peer.OnConnectionStateChange: the transport keeps one handler, the one
\* registered last. Then the negotiation and the answer.
handleSDP(created, transOk, senderOk, answered) ==
    /\ oggCall.pc = "idle"
    /\ oggCall' =
          IF ~created THEN [oggCall EXCEPT !.pc = "rejected"]
          ELSE [oggCall EXCEPT
                  !.pc = IF answered THEN "answered" ELSE "rejected",
                  !.registered = TRUE,
                  !.transport = "open",
                  !.Done = "open",
                  !.handler = IF OutOGGPath # "" /\ transOk /\ senderOk
                              THEN "sendOGGAudio" ELSE "closeCall"]
    /\ UNCHANGED <<coreVars, codec, sam, asm, sock>>

\* The transport reports a connection state to its handler: the handler of
\* setupPeerCallbacks calls closeCall on failed and closed, the handler of
\* setupAudioSender starts sendOGGAudio on connected.
NotifyState(s) ==
    /\ oggCall.transport # "none"
    /\ Len(oggCall.notified) < MaxNotified
    /\ LET c == [oggCall EXCEPT !.notified = Append(@, s)] IN
       oggCall' =
          IF c.handler = "closeCall" /\ s \in {"failed", "closed"}
          THEN CloseOggCall(c)
          ELSE IF c.handler = "sendOGGAudio" /\ s = "connected"
          THEN [c EXCEPT !.sends = @ + 1]
          ELSE c
    /\ UNCHANGED <<coreVars, codec, sam, asm, sock>>

\* handleHangup for the id of this Call: closeCall when it is registered.
handleHangup ==
    /\ oggCall.pc # "idle"
    /\ oggCall.registered
    /\ oggCall' = CloseOggCall(oggCall)
    /\ UNCHANGED <<coreVars, codec, sam, asm, sock>>

\* ------------------------------------------------ SystemAudioManager
\* portaudio.Devices(): loudspeakers, a microphone, a headset. The defaults
\* are the microphone and the loudspeakers.
AudioDevices ==
    <<[MaxInputChannels |-> 0, MaxOutputChannels |-> 2],
      [MaxInputChannels |-> 1, MaxOutputChannels |-> 0],
      [MaxInputChannels |-> 2, MaxOutputChannels |-> 2]>>
\* deviceIndex counts from 0.
DeviceAt(deviceIndex) == AudioDevices[deviceIndex + 1]
DeviceIndexes == -1..Len(AudioDevices)
DefaultDevice(fn) == IF fn = "StartCapture" THEN 1 ELSE 0

\* The checks of SetInputDevice and SetOutputDevice before sam.mutex.Lock():
\* the index is in range and the device has channels of the kind.
Settable(kind, deviceIndex) ==
    /\ deviceIndex >= 0
    /\ deviceIndex < Len(AudioDevices)
    /\ IF kind = "input" THEN DeviceAt(deviceIndex).MaxInputChannels # 0
       ELSE DeviceAt(deviceIndex).MaxOutputChannels # 0

\* SetInputDevice / SetOutputDevice called by the program: an error, or the
\* goroutine arrives at sam.mutex.Lock().
SetDevice(kind, deviceIndex) ==
    /\ sam.pc = "idle"
    /\ sam' = IF Settable(kind, deviceIndex)
              THEN [sam EXCEPT !.pc = "lock", !.arg = deviceIndex,
                               !.fn = IF kind = "input" THEN "SetInputDevice"
                                      ELSE "SetOutputDevice"]
              ELSE [sam EXCEPT !.ret = "error"]
    /\ UNCHANGED <<coreVars, codec, oggCall, asm, sock>>

\* sam.mutex.Lock() in SetInputDevice / SetOutputDevice goes through when
\* nobody holds the mutex (it is not reentrant): the device is stored, the
\* mutex released, nil returned.
SetDeviceLocked ==
    /\ sam.pc = "lock"
    /\ ~sam.mutex
    /\ sam' = [sam EXCEPT
                 !.pc = "idle", !.fn = "none", !.arg = -1, !.ret = "nil",
                 !.inputDevice = IF sam.fn = "SetInputDevice" THEN sam.arg
                                 ELSE @,
                 !.outputDevice = IF sam.fn = "SetOutputDevice" THEN sam.arg
                                  ELSE @]
    /\ UNCHANGED <<coreVars, codec, oggCall, asm, sock>>

\* StartCapture / StartPlayback: sam.mutex.Lock() with the unlock deferred;
\* an error when already running; with no device chosen, the default device
\* is asked for and SetInputDevice(0) (StartCapture only) or, for the index
\* of the default device, SetInputDevice(i) / SetOutputDevice(i) is called
\* with the mutex held; with a device chosen the stream is opened and
\* started.
StartDevice(fn, defaultOk, streamOk) ==
    LET kind == IF fn = "StartCapture" THEN "input" ELSE "output"
        running == IF kind = "input" THEN sam.isCapturing ELSE sam.isPlaying
        chosen == IF kind = "input" THEN sam.inputDevice ELSE sam.outputDevice
        first == IF kind = "input" /\ Settable(kind, 0) THEN 0
                 ELSE DefaultDevice(fn)
    IN /\ sam.pc = "idle"
       /\ ~sam.mutex
       /\ sam' =
             IF running THEN [sam EXCEPT !.ret = "error"]
             ELSE IF chosen = -1
             THEN IF ~defaultOk THEN [sam EXCEPT !.ret = "error"]
                  ELSE [sam EXCEPT !.mutex = TRUE, !.pc = "lock",
                                   !.fn = fn, !.arg = first]
             ELSE IF ~streamOk THEN [sam EXCEPT !.ret = "error"]
             ELSE [sam EXCEPT !.ret = "nil",
                              !.isCapturing = IF kind = "input" THEN TRUE
                                              ELSE @,
                              !.isPlaying = IF kind = "output" THEN TRUE
                                            ELSE @]
       /\ UNCHANGED <<coreVars, codec, oggCall, asm, sock>>

\* StopCapture / StopPlayback.
StopDevice(kind) ==
    /\ sam.pc = "idle"
    /\ ~sam.mutex
    /\ sam' = [sam EXCEPT
                 !.ret = "none",
                 !.isCapturing = IF kind = "input" THEN FALSE ELSE @,
                 !.isPlaying = IF kind = "output" THEN FALSE ELSE @]
    /\ UNCHANGED <<coreVars, codec, oggCall, asm, sock>>

\* ------------------------------------------------ AudioStreamManager
\* CreateAudioTrack: asm.track is assigned what NewTrackLocalStaticSample
\* returns, nil with an error.
CreateAudioTrack(ok) ==
    /\ asm' = [asm EXCEPT !.track = ok,
                          !.ret = IF ok THEN "nil" ELSE "error"]
    /\ UNCHANGED <<coreVars, codec, oggCall, sam, sock>>

\* StartStreaming: an error when already streaming or without a track;
\* otherwise the flag is set and a streamAudioSamples goroutine started.
StartStreaming ==
    /\ Len(asm.tasks) < MaxStarts
    /\ asm' = IF asm.isStreaming \/ ~asm.track
              THEN [asm EXCEPT !.ret = "error"]
              ELSE [asm EXCEPT !.isStreaming = TRUE, !.ret = "nil",
                               !.tasks = Append(@, "running")]
    /\ UNCHANGED <<coreVars, codec, oggCall, sam, sock>>

\* StopStreaming: nothing when not streaming; otherwise the context made
\* in the constructor is cancelled and the flag cleared.
StopStreaming ==
    /\ asm' = IF ~asm.isStreaming THEN asm
              ELSE [asm EXCEPT !.ctxDone = TRUE, !.isStreaming = FALSE]
    /\ UNCHANGED <<coreVars, codec, oggCall, sam, sock>>

\* What one pass of the select in streamAudioSamples meets: the cancelled
\* context, a tick with no samples, a tick whose samples are written, a
\* tick whose write fails.
StreamOutcomes == {"done", "empty", "written", "error"}

\* streamAudioSamples, one pass of its loop: it returns on the cancelled
\* context and on a write error, and leaves asm.isStreaming alone.
streamAudioSamples(i, outcome) ==
    /\ i \in 1..Len(asm.tasks)
    /\ asm.tasks[i] = "running"
    /\ outcome = "done" => asm.ctxDone
    /\ outcome = "written" => asm.written < MaxChunks
    /\ asm' = [asm EXCEPT
                 !.tasks[i] = IF outcome \in {"done", "error"}
                              THEN "returned" ELSE @,
                 !.written = IF outcome = "written" THEN @ + 1 ELSE @]
    /\ UNCHANGED <<coreVars, codec, oggCall, sam, sock>>

\* ------------------------------------------------ SocketClientService
\* The socket's "connect" event (first connection, automatic reconnection or
\* reconnect()): the service's listener sets isConnected and calls joinRoom,
\* which registers one more USER_INITIATED_EVENT listener with socket.on.
\* After cleanup() no listener of the service is left.
SocketConnect ==
    /\ sock.link = "down"
    /\ sock.connects < MaxConnects
    /\ sock' = IF sock.wired
               THEN [sock EXCEPT !.link = "up", !.connects = @ + 1,
                                 !.isConnected = TRUE,
                                 !.listeners = @ + 1]
               ELSE [sock EXCEPT !.link = "up", !.connects = @ + 1]
    /\ UNCHANGED <<coreVars, codec, oggCall, sam, asm>>

\* The socket's "disconnect" event: isConnected = false. The listeners of
\* USER_INITIATED_EVENT stay registered.
SocketDisconnect ==
    /\ sock.link = "up"
    /\ sock' = [sock EXCEPT !.link = "down",
                            !.isConnected = IF sock.wired THEN FALSE ELSE @]
    /\ UNCHANGED <<coreVars, codec, oggCall, sam, asm>>

\* The call events of a webhook message.
CallEvents == {"connect", "terminate"}

\* The server emits USER_INITIATED_EVENT: every registered listener runs
\* handleIncomingCall(message) once.
IncomingCall(event) ==
    /\ sock.link = "up"
    /\ Len(sock.handled) < MaxEmits
    /\ sock' = [sock EXCEPT
                  !.handled = Append(@, [event |-> event,
                                         subscribed |-> sock.wired,
                                         times |-> sock.listeners])]
    /\ UNCHANGED <<coreVars, codec, oggCall, sam, asm>>

\* cleanup(): socket.off for the four events.
SocketCleanup ==
    /\ sock.wired
    /\ sock' = [sock EXCEPT !.wired = FALSE, !.listeners = 0]
    /\ UNCHANGED <<coreVars, codec, oggCall, sam, asm>>

\* ------------------------------------------------------------ behaviours
Next ==
    \/ \E t \in Threads, req \in Requests :
          HandleSDP(t, req, FALSE, now, 0, FALSE, FALSE)
    \/ \E t \in Threads, req \in Requests :
          /\ CanStart(t)
          /\ RequestOutcome(req) = "decoded"
          /\ \E tm \in now..MaxTime, r \in RandDraws, transOk \in BOOLEAN :
                 \E senderOk \in (IF transOk THEN BOOLEAN ELSE {TRUE}) :
                     HandleSDP(t, req, TRUE, tm, r, transOk, senderOk)
    \/ \E t \in Threads, failAt \in 0..Len(NegotiationSteps) :
          \E localCandidates \in (IF failAt = 0 THEN GatheredCandidates
                                   ELSE {[nil |-> FALSE, items |-> <<>>]}) :
              SDPNegotiate(t, failAt, localCandidates)
    \/ \E t \in Threads, id \in CallIDs \cup {NoID} : HandleHangup(t, id)
    \/ \E t \in Threads, o \in Objs, s \in PCStates :
          OnConnectionStateChange(t, o, s)
    \/ \E t \in Threads, o \in Objs, s \in ICEStates :
          OnICEConnectionStateChange(t, o, s)
    \/ \E t \in Threads : CloseCallSelect(t)
    \/ \E t \in Threads : CloseCallCloseDone(t)
    \/ \E t \in Threads : CloseCallDelete(t)
    \/ \E t \in Threads : ICETest(t)
    \/ \E t \in Threads : ICESet(t)
    \/ \E o \in Objs, outcome \in AgentOutcomes :
          initAgentCall(o, "TrackLocalStaticSample", outcome)
    \/ \E o \in Objs : BridgeLoopExit(o)
    \/ \E o \in Objs : SignalStopAudio(o)
    \/ \E o \in Objs : SignalExit(o)

Spec == Init /\ [][Next]_vars

\* The signalling endpoints and the teardown triggers alone: every action
\* that reads or writes the registry, without the audio pipeline.
SignalingNext ==
    \/ \E t \in Threads, req \in Requests :
          HandleSDP(t, req, FALSE, now, 0, FALSE, FALSE)
    \/ \E t \in Threads, req \in Requests :
          /\ CanStart(t)
          /\ RequestOutcome(req) = "decoded"
          /\ \E tm \in now..MaxTime, r \in RandDraws, transOk \in BOOLEAN :
                 \E senderOk \in (IF transOk THEN BOOLEAN ELSE {TRUE}) :
                     HandleSDP(t, req, TRUE, tm, r, transOk, senderOk)
    \/ \E t \in Threads, failAt \in 0..Len(NegotiationSteps) :
          \E localCandidates \in (IF failAt = 0 THEN GatheredCandidates
                                   ELSE {[nil |-> FALSE, items |-> <<>>]}) :
              SDPNegotiate(t, failAt, localCandidates)
    \/ \E t \in Threads, id \in CallIDs \cup {NoID} : HandleHangup(t, id)
    \/ \E t \in Threads, o \in Objs, s \in PCStates :
          OnConnectionStateChange(t, o, s)
    \/ \E t \in Threads : CloseCallSelect(t)
    \/ \E t \in Threads : CloseCallCloseDone(t)
    \/ \E t \in Threads : CloseCallDelete(t)

SignalingSpec == Init /\ [][SignalingNext]_vars

\* The two HTTP endpoints alone: the requests of HandleSDP with their
\* negotiation, and HandleHangup with the steps of its closeCall.
IntakeNext ==
    \/ \E t \in Threads, req \in Requests :
          HandleSDP(t, req, FALSE, now, 0, FALSE, FALSE)
    \/ \E t \in Threads, req \in Requests :
          /\ CanStart(t)
          /\ RequestOutcome(req) = "decoded"
          /\ \E tm \in now..MaxTime, r \in RandDraws, transOk \in BOOLEAN :
                 \E senderOk \in (IF transOk THEN BOOLEAN ELSE {TRUE}) :
                     HandleSDP(t, req, TRUE, tm, r, transOk, senderOk)
    \/ \E t \in Threads, failAt \in 0..Len(NegotiationSteps) :
          \E localCandidates \in (IF failAt = 0 THEN GatheredCandidates
                                   ELSE {[nil |-> FALSE, items |-> <<>>]}) :
              SDPNegotiate(t, failAt, localCandidates)
    \/ \E t \in Threads, id \in CallIDs \cup {NoID} : HandleHangup(t, id)
    \/ \E t \in Threads : CloseCallSelect(t)
    \/ \E t \in Threads : CloseCallCloseDone(t)
    \/ \E t \in Threads : CloseCallDelete(t)

IntakeSpec == Init /\ [][IntakeNext]_vars

FrameNext ==
    \/ \E n \in ChunkLens : BridgeChunk(n)
    \/ \E outcome \in FrameOutcomes : BridgeFrame(outcome)

FrameSpec == Init /\ [][FrameNext]_vars

ChannelNext ==
    \/ \E encoderOk \in BOOLEAN : BridgeStart(encoderOk)
    \/ BridgeReceive
    \/ stopAudio
    \/ \E outcome \in ReadOutcomes : processAudioTrack(outcome)
    \/ playAudioBuffer

ChannelSpec == Init /\ [][ChannelNext]_vars

\* A session from its creation on, with every notification of its transport:
\* the callbacks of setupPeerCallbacks and what they start.
CallbackNext ==
    \/ \E t \in Threads, req \in Requests :
          /\ CanStart(t)
          /\ RequestOutcome(req) = "decoded"
          /\ \E tm \in now..MaxTime, r \in RandDraws, transOk \in BOOLEAN :
                 \E senderOk \in (IF transOk THEN BOOLEAN ELSE {TRUE}) :
                     HandleSDP(t, req, TRUE, tm, r, transOk, senderOk)
    \/ \E t \in Threads : SDPNegotiate(t, 0, [nil |-> FALSE, items |-> <<>>])
    \/ \E t \in Threads, o \in Objs, s \in PCStates :
          OnConnectionStateChange(t, o, s)
    \/ \E t \in Threads, o \in Objs, s \in ICEStates :
          OnICEConnectionStateChange(t, o, s)
    \/ \E t \in Threads, o \in Objs, event \in InfoEvents :
          LogCallback(t, o, event)
    \/ \E t \in Threads : CloseCallSelect(t)
    \/ \E t \in Threads : CloseCallCloseDone(t)
    \/ \E t \in Threads : CloseCallDelete(t)
    \/ \E t \in Threads : ICETest(t)
    \/ \E t \in Threads : ICESet(t)
    \/ \E o \in Objs, outcome \in AgentOutcomes :
          initAgentCall(o, "TrackLocalStaticSample", outcome)

CallbackSpec == Init /\ [][CallbackNext]_vars

\* The outbound pipeline of a session next to the inbound track of its
\* transport: initAgentCall on every kind of track the interface
\* webrtc.TrackLocal admits, while setupAudioReceiver's loop records.
AgentNext ==
    \/ \E t \in Threads, req \in Requests :
          /\ CanStart(t)
          /\ RequestOutcome(req) = "decoded"
          /\ \E tm \in now..MaxTime, r \in RandDraws, transOk \in BOOLEAN :
                 \E senderOk \in (IF transOk THEN BOOLEAN ELSE {TRUE}) :
                     HandleSDP(t, req, TRUE, tm, r, transOk, senderOk)
    \/ \E t \in Threads, o \in Objs, s \in ICEStates :
          OnICEConnectionStateChange(t, o, s)
    \/ \E t \in Threads : ICETest(t)
    \/ \E t \in Threads : ICESet(t)
    \/ \E o \in Objs, trackLocal \in TrackKinds, outcome \in AgentOutcomes :
          initAgentCall(o, trackLocal, outcome)
    \/ \E sinkOk \in BOOLEAN : OnTrack(TRUE, sinkOk, IdleHangupSeconds)
    \/ \E outcome \in ReadOutcomesRTP : ReadRTP(outcome)
    \/ TransportClosed

AgentSpec == Init /\ [][AgentNext]_vars

\* Every int16 through the producer's encoding and the bridge's decoding.
CodecNext ==
    \/ /\ codec.pc = "idle"
       /\ \E int16Sample \in Int16 : EncodeSample(int16Sample)
    \/ DecodeSample

CodecSpec == Init /\ [][CodecNext]_vars

\* One call of package main's handleSDP and what its transport reports.
OggNext ==
    \/ \E created, transOk, senderOk, answered \in BOOLEAN :
          handleSDP(created, transOk, senderOk, answered)
    \/ \E s \in PCStates : NotifyState(s)
    \/ handleHangup

OggSpec == Init /\ [][OggNext]_vars

\* One goroutine calling the SystemAudioManager.
AudioManagerNext ==
    \/ \E kind \in {"input", "output"}, deviceIndex \in DeviceIndexes :
          SetDevice(kind, deviceIndex)
    \/ SetDeviceLocked
    \/ \E fn \in {"StartCapture", "StartPlayback"},
           defaultOk, streamOk \in BOOLEAN :
          StartDevice(fn, defaultOk, streamOk)
    \/ \E kind \in {"input", "output"} : StopDevice(kind)

AudioManagerSpec == Init /\ [][AudioManagerNext]_vars

\* The AudioStreamManager, its callers and its streaming goroutines.
StreamNext ==
    \/ \E ok \in BOOLEAN : CreateAudioTrack(ok)
    \/ StartStreaming
    \/ StopStreaming
    \/ \E i \in 1..MaxStarts, outcome \in StreamOutcomes :
          streamAudioSamples(i, outcome)

StreamSpec == Init /\ [][StreamNext]_vars

\* The SocketClientService and its socket.
SocketNext ==
    \/ SocketConnect
    \/ SocketDisconnect
    \/ \E event \in CallEvents : IncomingCall(event)
    \/ SocketCleanup

SocketSpec == Init /\ [][SocketNext]_vars

InboundNext ==
    \/ \E audio, sinkOk \in BOOLEAN, threshold \in IdleThresholds :
          OnTrack(audio, sinkOk, threshold)
    \/ \E outcome \in ReadOutcomesRTP : ReadRTP(outcome)
    \/ Tick
    \/ Watchdog
    \/ TransportClosed

InboundSpec == Init /\ [][InboundNext]_vars

\* The inbound track with the scheduling Go gives it: the watchdog goroutine
\* runs once timer.C holds a value, and the clock does not stop.
InboundFairSpec == InboundSpec /\ WF_vars(Watchdog) /\ WF_vars(Tick)

HandshakeNext ==
    \/ \E remoteCandidates \in CandidateLists :
          BeginHandshake(remoteCandidates)
    \/ setupPeerCallbacks
    \/ \E step \in {"AddTransceiverFromKind", "OnICECandidate",
                     "setupAudioReceiver", "setupAudioSender"} :
          SetupCall(step)
    \/ \E ok \in BOOLEAN : SetRemoteDescription(ok)
    \/ \E ok \in BOOLEAN : AddICECandidate(ok)
    \/ \E ok \in BOOLEAN : CreateAnswer(ok)
    \/ \E ok \in BOOLEAN : SetLocalDescription(ok)
    \/ \E c \in CandidateTexts : CandidateFound(c)
    \/ GatheringFinished
    \/ WriteAnswer

HandshakeSpec == Init /\ [][HandshakeNext]_vars

SignalNext ==
    \/ \E p \in Payloads : EncodeMarshal(p[1], p[2])
    \/ EncodeZip
    \/ EncodeBase64
    \/ DecodeBase64
    \/ DecodeUnzip
    \/ DecodeUnmarshal

SignalSpec == Init /\ [][SignalNext]_vars

ServerNext ==
    \/ \E q \in Reqs, req \in StartCallRequests : StartCallCheck(q, req)
    \/ \E q \in Reqs : StartCallStore(q)
    \/ \E q \in Reqs, ok \in BOOLEAN : StartCallStart(q, ok)
    \/ \E q \in Reqs : StartCallActivate(q)

ServerSpec == Init /\ [][ServerNext]_vars

ListenedEvents == {"call_started", "error"}

EmitterNext ==
    \/ \E e \in ListenedEvents, h \in Handlers : On(e, h)
    \/ \E e \in ListenedEvents, h \in Handlers \cup {NoHandler} : Off(e, h)
    \/ \E e \in ListenedEvents : EmitEvent(e)

EmitterSpec == Init /\ [][EmitterNext]_vars

ClientNext ==
    \/ \E outcome \in StartOutcomes : StartCall(outcome)
    \/ StopCall
    \/ \E e \in ListenedEvents, h \in Handlers : On(e, h)

ClientSpec == Init /\ [][ClientNext]_vars

\* ------------------------------------------------------------ properties
\* The session is torn down: transport closed, Done closed, its identifier
\* absent from the registry (and so from the status list).
TornDown(o) ==
    /\ peer[o].closed
    /\ call[o].Done = "closed"
    /\ call[o].ID \notin getAllCalls

\* C1: whatever the interleaving of two teardown triggers on one session
\* (hangup requests, failed notifications), the second one changes nothing:
\* no trigger dies in a panic, and the registry entry is removed once.
C1_SecondTriggerChangesNothing ==
    /\ proc # "crashed"
    /\ response.resp # "close_panic"
    /\ \A o \in Objs : removals[o] <= 1

\* C2: under any interleaving of closeCall invocations on one session,
\* close(call.Done) is executed at most once.
C2_DoneClosedOnce == \A o \in Objs : call[o].doneCloses <= 1

\* C3: a session whose transport is closed can be neither loaded nor listed.
C3_ClosedNotReachable ==
    \A id \in getAllCalls : ~peer[loadCall(id)].closed

\* C4: when HandleSDP answers with the error of a failed negotiation call,
\* the session it had created is torn down.
C4_FailedHandshakeTornDown ==
    (response.kind = "sdp" /\ response.call # NoCall
        /\ response.resp \in {"400", "500"})
    => /\ peer[response.call].closed
       /\ call[response.call].ID \notin getAllCalls

\* C5: the sessions created so far have pairwise distinct identifiers and no
\* store has replaced an existing entry.
C5_DistinctEntries ==
    /\ overwrites = 0
    /\ \A o1, o2 \in 1..nCalls : o1 # o2 => call[o1].ID # call[o2].ID

C7_FailedEndsTornDown ==
    /\ \A t \in Threads :
          (thr[t].kind = "state" /\ thr[t].pc \in {"returned", "panicked"})
          => TornDown(thr[t].call)
    /\ \A o \in Objs : removals[o] > 0 => call[o].ID \notin getAllCalls

\* C8: a torn-down session has no open bridge channel.
C8_TeardownClosesBridge ==
    \A o \in Objs : TornDown(o) => agent[o].bridge # "open"


\* The consumer has taken whole frames' worth of bytes and is waiting for the
\* next chunk.
FramesComplete ==
    /\ fed % FrameBytes = 0
    /\ Len(pcmBuffer) < FrameSize
    /\ skipped = 0

\* The frames on the track are, in order, the frames of the agent's stream.
TrackIsStream ==
    /\ Len(track) = fed \div FrameBytes
    /\ \A f \in 1..Len(track) : \A i \in 1..FrameSize :
          track[f][i] = AgentSample((f - 1) * FrameSize + i)

\* C9 (as the code has it): chunks of whole 16-bit samples (even lengths)
\* that add up to k frames give exactly k frames on the track, holding the
\* input samples in arrival order, none lost and none repeated.
C9_WholeSampleChunksFramed ==
    (FramesComplete /\ oddChunks = 0) => TrackIsStream

\* C9, reached: three chunks of even length have been taken and the two
\* frames they add up to are on the track.
C9_FramesAcrossChunks ==
    /\ FramesComplete /\ oddChunks = 0
    /\ chunks = 3 /\ fed = 2 * FrameBytes /\ Len(track) = 2
    /\ Len(pcmBuffer) = 0

\* C9 as stated: chunks of any length, odd ones included, that add up to k
\* frames give exactly those k frames.
C9_AnyChunksFramed == FramesComplete => TrackIsStream

\* The channel is in service and holds as many chunks as it can.
ChannelFull == chanState = "open" /\ Len(audioBuffer) = BridgeCapacity

\* C10: with the channel full, playAudioBuffer's send is never disabled
\* (the producer does not block), and the step discards the chunk: the
\* queue is left as it was and the producer is back in its read loop.
C10_FullChannelNeverBlocks ==
    /\ []((reader.pc = "send" /\ ChannelFull) => ENABLED playAudioBuffer)
    /\ [][(reader.pc = "send" /\ reader'.pc # "send" /\ ChannelFull)
            => /\ audioBuffer' = audioBuffer
               /\ reader'.pc = "read"]_vars

\* C10, reached: a chunk has been discarded on a full channel in service and
\* the producer is back at its read.
C10_ChunkDiscarded ==
    ChannelFull /\ dropLogs > 0 /\ reader.pc = "read"

\* C11: the printed "channel full" lines count the dropped chunks: a send
\* that returns to the read loop either queues its chunk and prints
\* nothing, or leaves the queue as it was and prints one line; nothing else
\* prints such a line.
C11_DropsAreCounted ==
    /\ [][(reader.pc = "send" /\ reader'.pc = "read")
            => IF audioBuffer' = audioBuffer
               THEN dropLogs' = dropLogs + 1
               ELSE /\ audioBuffer' = Append(audioBuffer, reader.pcmBytes)
                    /\ dropLogs' = dropLogs]_vars
    /\ [][dropLogs' # dropLogs
            => (reader.pc = "send" /\ ChannelFull)]_vars

\* C11, reached: two chunks were dropped and two lines printed, nobody
\* receiving from the channel.
C11_TwoDropsCounted ==
    /\ dropLogs = 2
    /\ offers = BridgeCapacity + 2
    /\ reader.pc = "read"
    /\ consumer = "returned"


\* The number of ";" of a text.
SeparatorCount(str) == Cardinality({i \in 1..Len(str) : str[i] = Separator})

\* The readable POST requests whose trimmed body does not hold exactly one
\* ";".
IllFormed ==
    { req \in Requests : /\ req.method = "POST"
                         /\ req.readOk
                         /\ SeparatorCount(TrimSpace(req.body)) # 1 }

\* C12: a request whose trimmed body does not contain exactly one ";" is
\* answered 400 in the step that takes it, and that step creates no peer
\* transport and no Call and leaves the registry as it was.
C12_IllFormedRejected ==
    [][\A t \in Threads :
          (CanStart(t) /\ thr'[t] # thr[t])
          => \A req \in IllFormed, created \in BOOLEAN :
                HandleSDP(t, req, created, now, 0, FALSE, FALSE)
                => /\ response' = Response("sdp", NoCall, "400")
                   /\ thr'[t] = DoneThread
                   /\ calls' = calls
                   /\ nCalls' = nCalls
                   /\ call' = call
                   /\ peer' = peer]_vars

\* C12 witness: a body was rejected for its format while a session is
\* registered.
C12_RejectedBesideSession ==
    /\ response = Response("sdp", NoCall, "400")
    /\ getAllCalls # {}

\* The readable POST requests of two parts of which one does not decode:
\* text outside base64, base64 of no gzip member, gzip of no JSON, JSON of
\* the other shape.
Undecodable ==
    { req \in Requests :
        /\ req.method = "POST"
        /\ req.readOk
        /\ WellFormed(Split(TrimSpace(req.body)))
        /\ \/ signalDecodeDescription(Split(TrimSpace(req.body))[1]).panic
           \/ signalDecodeCandidates(Split(TrimSpace(req.body))[2]).panic }

\* C13: a request of which the offer or the candidates envelope fails to
\* decode is answered with a client error (400) in the step that takes it,
\* and no session is registered by that step.
C13_DecodeFailureIsClientError ==
    [][\A t \in Threads :
          (CanStart(t) /\ thr'[t] # thr[t])
          => \A req \in Undecodable, created \in BOOLEAN :
                HandleSDP(t, req, created, now, 0, FALSE, FALSE)
                => /\ response' = Response("sdp", NoCall, "400")
                   /\ calls' = calls
                   /\ nCalls' = nCalls]_vars

\* C14: every payload of the bounded set (session descriptions, and candidate
\* lists: the nil slice, the empty list, lists of one and two candidates)
\* comes back from signalDecode(signalEncode(P)) as P: no step of the
\* decoding panics, the decoded value is the payload, and the envelope is
\* the one signalEncode gives and signalDecode takes back.
C14_RoundTrip ==
    /\ signal.stage # "panicked"
    /\ signal.stage = "decoded" => signal.data = signal.payload
    /\ (signal.stage = "envelope" /\ signal.kind = "description")
       => /\ signal.data = signalEncodeDescription(signal.payload)
          /\ signalDecodeDescription(signal.data)
             = [panic |-> FALSE, v |-> signal.payload]
    /\ (signal.stage = "envelope" /\ signal.kind = "candidates")
       => /\ signal.data = signalEncodeCandidates(signal.payload)
          /\ signalDecodeCandidates(signal.data)
             = [panic |-> FALSE, v |-> signal.payload]

\* C14 witness: the empty candidate list has gone through encode and decode.
C14_EmptyListDecoded ==
    /\ signal.stage = "decoded"
    /\ signal.kind = "candidates"
    /\ signal.payload = [nil |-> FALSE, items |-> <<>>]

\* C15: when the peer transport cannot be created inside createCall, the
\* step that takes the (well-formed, decodable) request answers 500, stores
\* no session and leaves the registry, the Call objects and the transports
\* as they were.
C15_FailedCreateStoresNothing ==
    [][\A t \in Threads :
          (CanStart(t) /\ thr'[t] # thr[t])
          => \A req \in Requests :
                (/\ RequestOutcome(req) = "decoded"
                 /\ HandleSDP(t, req, FALSE, now, 0, FALSE, FALSE))
                => /\ response' = Response("sdp", NoCall, "500")
                   /\ thr'[t] = DoneThread
                   /\ calls' = calls
                   /\ nCalls' = nCalls
                   /\ call' = call
                   /\ peer' = peer]_vars

\* C15 witness: a request was answered 500 for a transport that could not
\* be created, while a session of an earlier request is registered.
C15_ServerErrorBesideSession ==
    /\ response = Response("sdp", NoCall, "500")
    /\ getAllCalls # {}

\* C16: a hangup request for an id that is not registered is answered 404 and
\* changes neither the registry nor any session; a hangup request for a
\* registered id ends acknowledged (200) with that session torn down
\* (transport closed, Done closed, entry removed), the entry it removed being
\* that session's, and with every other session as it was.
C16_HangupContract ==
    [][/\ \A t \in Threads :
            (CanStart(t) /\ thr'[t] # thr[t])
            => \A id \in CallIDs :
                  (loadCall(id) = NoCall /\ HandleHangup(t, id))
                  => /\ response' = Response("hangup", NoCall, "404")
                     /\ calls' = calls
                     /\ call' = call
                     /\ peer' = peer
       /\ \A t \in Threads :
            (thr[t].kind = "hangup" /\ thr'[t] = DoneThread)
            => /\ response' = Response("hangup", thr[t].call, "200")
               /\ peer'[thr[t].call].closed
               /\ call'[thr[t].call].Done = "closed"
               /\ calls'[call[thr[t].call].ID] = NoCall
               /\ calls[call[thr[t].call].ID] \in {thr[t].call, NoCall}
               /\ \A o \in Objs \ {thr[t].call} :
                     call'[o] = call[o] /\ peer'[o] = peer[o]]_vars

\* C17: the step that answers a successful negotiation gives a body whose
\* first part is a non-empty envelope of an answer, and the id under which
\* that session is registered; and the entry of a registered session is
\* taken from the registry (and so from the status list) by that session's
\* teardown only.
C17_AnswerNamesRegisteredSession ==
    [][/\ \A t \in Threads :
            (/\ thr[t].kind = "sdp"
             /\ thr'[t] = DoneThread
             /\ response'.resp = "200")
            => /\ Len(Split(response'.body)) = 2
               /\ Split(response'.body)[1] # <<>>
               /\ signalDecodeDescription(Split(response'.body)[1])
                  = [panic |-> FALSE, v |-> LocalDescription]
               /\ response'.id = call[thr[t].call].ID
               /\ calls[response'.id] = thr[t].call
               /\ response'.id \in getAllCalls
       /\ \A id \in CallIDs :
            (calls[id] # NoCall /\ calls'[id] # calls[id])
            => /\ peer'[calls[id]].closed
               /\ call'[calls[id]].Done = "closed"]_vars

\* The sessions of an id whose Retell client has started a call.
StartedSessions(sid) ==
    {o \in 1..nSessions : session[o].ID = sid /\ session[o].started}

\* C18: whatever the interleaving of /start-call requests, at most one
\* session per sessionId is ever started, and a started session stays the one
\* registered under its id: a later request neither replaces nor removes it.
C18_OneSessionPerId ==
    \A sid \in SessionIDs :
        /\ Cardinality(StartedSessions(sid)) <= 1
        /\ \A o \in StartedSessions(sid) : clients[sid] = o

\* C20: an Emit of an event starts no handler that was given to Off for that
\* event (and not to On since); and Off with a nil handler leaves the event
\* without listeners and the listeners of the other events as they were.
C20_OffRemovesListeners ==
    [][/\ \A e \in ListenedEvents :
            EmitEvent(e)
            => \A h \in Handlers :
                  <<e, h>> \in offed => invocations'[h] = invocations[h]
       /\ \A e \in ListenedEvents :
            Off(e, NoHandler)
            => /\ listeners'[e] = <<>>
               /\ \A e2 \in Events \ {e} : listeners'[e2] = listeners[e2]]_vars

\* C19: a StartCall on a client that is connected returns "call already in
\* progress" and changes nothing else: not the client's fields, not the
\* number of peer connections it has created, and no event is emitted and no
\* handler started.
C19_SecondStartRejected ==
    [][\A outcome \in StartOutcomes :
          (client.connected /\ StartCall(outcome))
          => /\ ret' = "call already in progress"
             /\ client' = client
             /\ pcs' = pcs
             /\ emitted' = emitted
             /\ invocations' = invocations]_vars

\* C19 witness: a StartCall has been turned away from a connected client that
\* has a listener for call_started.
C19_RejectedWhileConnected ==
    /\ client.connected
    /\ ret = "call already in progress"
    /\ pcs = 1
    /\ listeners["call_started"] # <<>>
    /\ emitted["call_started"] = 1

\* C21: an established session (negotiated, its outbound pipeline running)
\* leaves the registry only in the deleteCall of a teardown of that very
\* session, begun by a hangup request or by a failed or closed connection
\* state.
C21_RemovedOnlyByTeardown ==
    [][\A o \in Objs :
          (/\ agent[o].state = "bridging"
           /\ \A t \in Threads : ~(thr[t].kind = "sdp" /\ thr[t].call = o)
           /\ \E id \in CallIDs : calls[id] = o
           /\ \A id \in CallIDs : calls'[id] # o)
          => \E t \in Threads :
                 /\ thr[t].pc = "cc_delete"
                 /\ thr[t].call = o
                 /\ thr[t].kind \in {"hangup", "state"}
                 /\ thr'[t].pc # "cc_delete"]_vars

\* Where a call first stands in the log of the handshake (0: not made).
LogPos(step) ==
    IF \E i \in 1..Len(shake.log) : shake.log[i] = step
    THEN CHOOSE i \in 1..Len(shake.log) :
             /\ shake.log[i] = step
             /\ \A j \in 1..(i - 1) : shake.log[j] # step
    ELSE 0
\* How often a call stands in the log.
LogCount(step) ==
    Cardinality({i \in 1..Len(shake.log) : shake.log[i] = step})

\* C22: in every negotiation setupPeerCallbacks has been called before the
\* transceiver is added and before a description or a candidate is applied,
\* and setupAudioReceiver (the OnTrack handler) before SetRemoteDescription.
C22_HandlersBeforeNegotiation ==
    /\ \A step \in {"AddTransceiverFromKind", "SetRemoteDescription",
                    "AddICECandidate", "SetLocalDescription"} :
          LogPos(step) # 0
          => (LogPos("setupPeerCallbacks") # 0
              /\ LogPos("setupPeerCallbacks") < LogPos(step))
    /\ LogPos("SetRemoteDescription") # 0
       => (LogPos("setupAudioReceiver") # 0
           /\ LogPos("setupAudioReceiver") < LogPos("SetRemoteDescription"))

\* C22 witness: a negotiation has applied the offer, two candidates and the
\* local description.
C22_NegotiationRan ==
    /\ LogPos("SetLocalDescription") # 0
    /\ LogCount("AddICECandidate") = 2
    /\ shake.gather = "gathering"

\* The steps of the handshake in the order of the state chain.
ChainRank(step) ==
    CASE step = "SetRemoteDescription" -> 1
      [] step = "AddICECandidate" -> 2
      [] step = "CreateAnswer" -> 3
      [] step = "SetLocalDescription" -> 4
      [] step = "gatherComplete" -> 5
      [] step = "Write" -> 6
      [] OTHER -> 0

\* C23: the handshake steps stand in the log in the order remote
\* description, remote candidates, answer, local description, gathering
\* complete, response, each but the candidates at most once and none
\* without the ones before it; the response is written after the gathering
\* has completed only; a rejected handshake has written no answer.
C23_HandshakeOrder ==
    /\ \A i, j \in 1..Len(shake.log) :
          (i < j /\ ChainRank(shake.log[j]) # 0)
          => ChainRank(shake.log[i]) <= ChainRank(shake.log[j])
    /\ \A step \in {"SetRemoteDescription", "CreateAnswer",
                    "SetLocalDescription", "gatherComplete", "Write"} :
          LogCount(step) <= 1
    /\ LogCount("AddICECandidate") <= Len(shake.remote)
    /\ LogPos("CreateAnswer") # 0
       => (LogPos("SetRemoteDescription") # 0
           /\ Len(shake.applied) = Len(shake.remote))
    /\ LogPos("SetLocalDescription") # 0 => LogPos("CreateAnswer") # 0
    /\ LogPos("gatherComplete") # 0 => LogPos("SetLocalDescription") # 0
    /\ LogPos("Write") # 0
       => (shake.gather = "complete" /\ LogPos("gatherComplete") # 0)
    /\ (shake.resp = "200") = (LogPos("Write") # 0)
    /\ shake.resp # "200" => shake.body = <<>>
    /\ shake.resp = "200" => shake.body # <<>>

\* C23 witness: an answer has been written after a gathering that found a
\* candidate; the other runs that end are the rejected ones.
C23_AnswerAfterGathering ==
    /\ shake.resp = "200"
    /\ Len(shake.discovered) > 0
    /\ Len(shake.applied) > 0

\* C24: the collector's list is at every moment the candidates discovered so
\* far, in discovery order, each once; and the candidate list that decodes
\* from the second part of the answer is the list of all the candidates
\* discovered before the gathering completed.
C24_CollectedInDiscoveryOrder ==
    /\ shake.localCandidates = shake.discovered
    /\ shake.resp = "200"
       => /\ Len(Split(shake.body)) = 2
          /\ signalDecodeCandidates(Split(shake.body)[2])
             = [panic |-> FALSE,
                v |-> [nil |-> FALSE, items |-> shake.discovered]]

\* C24 witness: the answer carries two different candidates.
C24_TwoCandidatesAnswered ==
    /\ shake.resp = "200"
    /\ Len(shake.discovered) = 2
    /\ shake.discovered[1] # shake.discovered[2]

\* C25: the candidates applied are at every moment the first ones of the
\* received list, in its order; when applying one has failed, the handshake
\* is over with a 400, the later candidates are not applied, no answer has
\* been created and no answer envelope is in the response.
C25_CandidatesInOrderOrAbort ==
    /\ Len(shake.applied) <= Len(shake.remote)
    /\ shake.applied = SubSeq(shake.remote, 1, Len(shake.applied))
    /\ LogCount("AddICECandidate") > Len(shake.applied)
       => /\ LogCount("AddICECandidate") = Len(shake.applied) + 1
          /\ shake.pc = "returned"
          /\ shake.resp = "400"
          /\ shake.body = <<>>
          /\ LogPos("CreateAnswer") = 0
          /\ LogPos("Write") = 0

\* C25 witness: of two different candidates the first was applied and the
\* second failed.
C25_SecondCandidateFailed ==
    /\ Len(shake.remote) = 2
    /\ shake.remote[1] # shake.remote[2]
    /\ Len(shake.applied) = 1
    /\ LogCount("AddICECandidate") = 2
    /\ shake.pc = "returned"

\* The f-th frame of the agent's sample stream, and the frames the consumer
\* has sliced off its buffer so far (of input in whole samples).
StreamFrame(f) ==
    [i \in 1..FrameSize |-> AgentSample((f - 1) * FrameSize + i)]
Dispatched == (fed \div 2 - Len(pcmBuffer)) \div FrameSize

\* The frames of the track from the k-th on are, in order, among the stream
\* frames from the f-th on.
RECURSIVE TrackWithin(_, _)
TrackWithin(k, f) ==
    IF k > Len(track) THEN TRUE
    ELSE IF f > Dispatched THEN FALSE
    ELSE IF track[k] = StreamFrame(f) THEN TrackWithin(k + 1, f + 1)
    ELSE TrackWithin(k, f + 1)

\* C26: (for input in whole samples) every frame sliced off the buffer is
\* either on the track or counted as skipped, never both and never twice: a
\* frame whose encoding or writing failed is not tried again and the frames
\* after it are still written; the frames on the track are stream frames in
\* stream order.
C26_FailedFrameSkipped ==
    oddChunks = 0
    => /\ (fed \div 2 - Len(pcmBuffer)) % FrameSize = 0
       /\ Len(track) + skipped = Dispatched
       /\ TrackWithin(1, 1)

\* C26 witness: the first frame failed, the second is on the track and a
\* third one failed after it.
C26_WrittenBetweenFailures ==
    /\ oddChunks = 0
    /\ skipped = 2
    /\ Len(track) = 1
    /\ track[1] = StreamFrame(2)
    /\ Dispatched = 3

\* C27: (for input in whole samples) every frame given to the encoder and
\* written has exactly 960 samples; what is left in the buffer is the tail
\* of the samples received so far, in arrival order; and the consumer takes
\* the next chunk only with less than one frame left in the buffer.
C27_WholeFramesAndTail ==
    /\ [](oddChunks = 0
          => /\ \A f \in 1..Len(track) : Len(track[f]) = samplesPerFrame
             /\ \A i \in 1..Len(pcmBuffer) :
                   pcmBuffer[i]
                   = AgentSample(fed \div 2 - Len(pcmBuffer) + i)
             /\ Len(pcmBuffer) >= samplesPerFrame
                => ENABLED (\E outcome \in FrameOutcomes :
                                BridgeFrame(outcome)))
    /\ [][chunks' # chunks => Len(pcmBuffer) < samplesPerFrame]_vars

\* C27 witness: after three chunks a remainder of 959 samples waits in the
\* buffer behind a dispatched frame.
C27_RemainderKept ==
    /\ oddChunks = 0
    /\ chunks = 3
    /\ Len(pcmBuffer) = samplesPerFrame - 1
    /\ Len(track) + skipped = 1

\* C28: the step of a signaling-state, negotiation-needed or
\* ICE-gathering-state notification leaves the registry, every session's
\* started flag and Done signal, every transport and every pipeline as they
\* were, and the process running.
C28_InformationalChangesNothing ==
    [][\A t \in Threads :
          (thr[t].pc = "idle" /\ thr'[t].kind \in InfoEvents)
          => /\ calls' = calls
             /\ call' = call
             /\ peer' = peer
             /\ agent' = agent
             /\ removals' = removals
             /\ proc' = proc]_vars

\* C28 witness: a gathering-state notification has been handled for a
\* registered session whose pipeline runs and whose transport is open.
C28_NotifiedWhileBridging ==
    \E t \in Threads :
        /\ thr[t].pc = "logged"
        /\ thr[t].kind = "OnICEGatheringStateChange"
        /\ calls[call[thr[t].call].ID] = thr[t].call
        /\ call[thr[t].call].AudioStarted
        /\ call[thr[t].call].Done = "open"
        /\ agent[thr[t].call].state = "bridging"
        /\ ~peer[thr[t].call].closed

C30_SinkInOrderAndClosed ==
    /\ \A i \in 1..Len(inbound.written) : inbound.written[i] = i
    /\ Len(inbound.written) <= inbound.arrived
    /\ inbound.arrived <= Len(inbound.written) + 1
    /\ inbound.arrived = Len(inbound.written) + 1 => inbound.pc = "returned"
    /\ inbound.pc = "reading" => inbound.sink = "open"
    /\ inbound.pc = "returned" => inbound.sink = "closed"
    /\ inbound.pc \in {"none", "ignored", "no_sink"}
       => (inbound.sink = "none" /\ inbound.arrived = 0)

\* C30 witness: two units are in the sink, the write of the third failed and
\* the sink is closed.
C30_ClosedAfterWriteError ==
    /\ inbound.written = <<1, 2>>
    /\ inbound.arrived = 3
    /\ inbound.pc = "returned"
    /\ inbound.sink = "closed"

\* ------------------------------------------------------------------ C31
\* C31: when the track handed to initAgentCall is not a sample track, the
\* outbound pipeline is not started: the step connects no room, makes no
\* bridge channel and installs no signal handler, and it leaves the registry,
\* the session, its transport and the inbound track as they are; nothing
\* starts the pipeline later, and the inbound loop can still record a unit.
NotSampleTracks == TrackKinds \ {"TrackLocalStaticSample"}
RoomConnected(a) == a.state \in {"no_audio", "bridging", "finished"}
C31_NonSampleTrackAborts ==
    /\ [](\A o \in Objs :
             agent[o].state = "no_sample" =>
                 /\ ~RoomConnected(agent[o])
                 /\ agent[o].bridge = "none"
                 /\ ~agent[o].sigHandler
                 /\ (inbound.pc = "reading" /\ inbound.peer = "open"
                     /\ inbound.arrived < MaxUnits
                        => ENABLED ReadRTP("written")))
    /\ [][\A o \in Objs, trackLocal \in NotSampleTracks,
             outcome \in AgentOutcomes :
             initAgentCall(o, trackLocal, outcome) =>
                 /\ agent'[o] = [agent[o] EXCEPT !.state = "no_sample"]
                 /\ ~RoomConnected(agent'[o])
                 /\ agent'[o].bridge = "none"
                 /\ calls' = calls /\ call' = call /\ peer' = peer
                 /\ inbound' = inbound]_vars

\* A registered session whose pipeline was refused for its track, with a
\* unit of inbound audio in the sink and the loop still reading.
C31_RefusedWhileRecording ==
    \E o \in Objs :
        /\ agent[o].state = "no_sample"
        /\ call[o].ID \in CallIDs
        /\ calls[call[o].ID] = o
        /\ inbound.pc = "reading"
        /\ Len(inbound.written) >= 1

\* ------------------------------------------------------------------ C32
\* C32: when StartCall fails in startCallHandler, the request is answered
\* 500, the registry no longer holds the session the request created, and
\* every entry that holds another request's session, under the same
\* sessionId too, is as it was.
C32_FailedStartRemovesOwnEntryOnly ==
    [][\A q \in Reqs :
          StartCallStart(q, FALSE) =>
              /\ srv'[q].resp = "500"
              /\ \A sid \in SessionIDs :
                    /\ clients'[sid] # srv[q].session
                    /\ clients[sid] # srv[q].session
                          => clients'[sid] = clients[sid]]_vars

\* ------------------------------------------------------------------ C33
\* C33: for every int16 value s, the bridge's decoding of the two bytes the
\* producer's little-endian encoding makes of s gives s back; the low byte
\* comes first, and both are bytes.
C33_DecodeInvertsEncode ==
    /\ codec.pc # "idle" =>
          /\ Len(codec.pcmBytes) = 2
          /\ \A j \in 1..2 : codec.pcmBytes[j] \in 0..255
          /\ codec.pcmBytes[1] = codec.int16Sample % 256
          /\ codec.pcmBytes[2] = (codec.int16Sample \div 256) % 256
    /\ codec.pc = "decoded" => codec.sample = codec.int16Sample

\* The most negative sample decoded: its high byte, shifted, leaves the
\* range of an int16 and wraps.
C33_NegativeDecoded ==
    /\ codec.pc = "decoded"
    /\ codec.int16Sample = -32768
    /\ codec.pcmBytes[2] * 256 >= 32768

\* ------------------------------------------------------------------ C34
\* C34: playAudioBuffer never sends on the bridge channel once stopAudio
\* has closed it (the send would panic), and a closed channel is no longer
\* the participant's channel, so that a second stopAudio does not close it
\* again.
C34_NoSendOnClosedChannel ==
    /\ reader.pc # "panicked"
    /\ chanState = "closed" => audioBridgeChannel = "nil"

\* ------------------------------------------------------------------ C35
\* C35: in the handshake whose setupAudioSender registers a connection-state
\* handler of its own, a failed or closed state reported afterwards still
\* tears the session down: transport closed, Done closed, entry removed.
C35_FailedStillTearsDown ==
    [][\A s \in {"failed", "closed"} :
          (NotifyState(s) /\ oggCall.registered) =>
              /\ oggCall'.transport = "closed"
              /\ oggCall'.Done = "closed"
              /\ ~oggCall'.registered]_vars

\* ------------------------------------------------------------------ C36
\* C36: the chunk playAudioBuffer offers to the bridge for a decoded mono
\* buffer of n samples has exactly 2*n bytes, and they encode the n samples
\* in order: every decoded sample is forwarded.
C36_EverySampleForwarded ==
    reader.pc = "send" =>
        LET buffer == DecodedBuffer(offers) IN
        /\ Len(reader.pcmBytes) = 2 * Len(buffer)
        /\ \A i \in 1..Len(buffer) :
              DecodeLE(reader.pcmBytes[2 * i - 1], reader.pcmBytes[2 * i])
                  = ToInt16(2 * buffer[i])

\* ------------------------------------------------------------------ C37
\* C37: StartCapture and StartPlayback return also when no device was
\* chosen beforehand: the goroutine inside them never waits for the
\* manager's mutex while holding it.
C37_StartReturnsWithoutDevice ==
    ~(/\ sam.fn \in {"StartCapture", "StartPlayback"}
      /\ sam.pc = "lock"
      /\ sam.mutex)

\* ------------------------------------------------------------------ C38
\* C38: IsStreaming() is true only while a streamAudioSamples goroutine is
\* running, also after StopStreaming followed by a new StartStreaming.
C38_StreamingWhileTaskRuns ==
    asm.isStreaming => \E i \in 1..Len(asm.tasks) : asm.tasks[i] = "running"

\* ------------------------------------------------------------------ C39
\* C39: once the read loop of the inbound track has returned, the watchdog
\* goroutine comes to an end too, and the transport is not closed by it
\* after that return.
C39_WatchdogEndsWithLoop ==
    /\ [](inbound.pc = "returned" => <>(inbound.watchdog # "waiting"))
    /\ [][inbound.pc = "returned" => inbound'.peer = inbound.peer]_vars

\* ------------------------------------------------------------------ C40
\* C40: every incoming-call event the socket delivers to the subscribed
\* service is handled exactly once, however often the socket disconnected
\* and connected again before.
C40_HandledExactlyOnce ==
    \A i \in 1..Len(sock.handled) :
        sock.handled[i].subscribed => sock.handled[i].times = 1

====
